---- MODULE Spec2Model ----
(***************************************************************************)
(* Model of the Power Automate Utility extension.                          *)
(*                                                                         *)
(* Part 1: the reference parser (parser.js).  A document is the array of   *)
(* lines sContent.split("\n"); a line is a sequence of one-character       *)
(* strings, so that every regular expression and every indexOf of the      *)
(* source is computed character by character.  Line indices are the        *)
(* 0-based indices of the JavaScript source: line k of the document is     *)
(* aLines[k + 1] here.                                                     *)
(***************************************************************************)
EXTENDS Integers, Sequences, FiniteSets, TLC

\* ------------------------------------------------------------------ bounds
\* Longest document (in lines) the parse is run on.
MaxLines == 3

\* ------------------------------------------------------- JavaScript values
\* The value of an out-of-range array read and of a missing property.
Undefined == <<"undefined">>
\* The value null (String.prototype.match without a match).
Null == [kind |-> "null"]

\* ------------------------------------------------------- character classes
LowerSeq ==
    <<"a","b","c","d","e","f","g","h","i","j","k","l","m",
      "n","o","p","q","r","s","t","u","v","w","x","y","z">>
UpperSeq ==
    <<"A","B","C","D","E","F","G","H","I","J","K","L","M",
      "N","O","P","Q","R","S","T","U","V","W","X","Y","Z">>
LowerChars == {LowerSeq[k] : k \in DOMAIN LowerSeq}
UpperChars == {UpperSeq[k] : k \in DOMAIN UpperSeq}
DigitChars == {"0","1","2","3","4","5","6","7","8","9"}
\* [a-zA-Z]
IsAlpha(c) == c \in LowerChars \cup UpperChars
\* [a-zA-Z0-9]
IsAlnum(c) == IsAlpha(c) \/ c \in DigitChars
\* \s, and the characters String.prototype.trim removes
IsSpace(c) == c \in {" ", "\t", "\r", "\n", "\f"}
\* case folding of the "i" flag
LowerOf == [c \in UpperChars |-> LowerSeq[CHOOSE k \in DOMAIN UpperSeq : UpperSeq[k] = c]]
ToLowerChar(c) == IF c \in UpperChars THEN LowerOf[c] ELSE c
ToLower(s) == [k \in DOMAIN s |-> ToLowerChar(s[k])]

\* --------------------------------------------------------- string methods
\* pat occurs in s at the 1-based position p
MatchAt(s, p, pat) ==
    /\ p >= 1
    /\ p + Len(pat) - 1 <= Len(s)
    /\ \A k \in 1..Len(pat) : s[p + k - 1] = pat[k]

\* the 1-based position of the first occurrence of pat in s at or after
\* position from, 0 when there is none
FindFrom(s, pat, from) ==
    LET iLast == Len(s) - Len(pat) + 1
    IN  IF \E p \in from..iLast : MatchAt(s, p, pat)
        THEN CHOOSE p \in from..iLast :
                 /\ MatchAt(s, p, pat)
                 /\ \A q \in from..(p - 1) : ~MatchAt(s, q, pat)
        ELSE 0

\* String.prototype.indexOf: 0-based, -1 when absent
indexOf(s, pat) == FindFrom(s, pat, 1) - 1

\* s.indexOf(pat) !== -1
Contains(s, pat) == indexOf(s, pat) # -1

\* the first position at or after p that holds no white space (Len(s)+1 if none)
SkipSpaces(s, p) ==
    IF \E q \in p..Len(s) : ~IsSpace(s[q])
    THEN CHOOSE q \in p..Len(s) :
             ~IsSpace(s[q]) /\ \A r \in p..(q - 1) : IsSpace(s[r])
    ELSE IF p > Len(s) THEN p ELSE Len(s) + 1

\* the last position at or before p that holds no white space (0 if none)
SkipSpacesBack(s, p) ==
    IF \E q \in 1..p : ~IsSpace(s[q])
    THEN CHOOSE q \in 1..p :
             ~IsSpace(s[q]) /\ \A r \in (q + 1)..p : IsSpace(s[r])
    ELSE IF p < 1 THEN p ELSE 0

\* String.prototype.trim
trim(s) == SubSeq(s, SkipSpaces(s, 1), SkipSpacesBack(s, Len(s)))

\* the first position at or after p that holds no [a-zA-Z0-9]
SkipAlnum(s, p) ==
    IF \E q \in p..Len(s) : ~IsAlnum(s[q])
    THEN CHOOSE q \in p..Len(s) :
             ~IsAlnum(s[q]) /\ \A r \in p..(q - 1) : IsAlnum(s[r])
    ELSE IF p > Len(s) THEN p ELSE Len(s) + 1

\* Array.prototype.join of an array of strings
RECURSIVE join(_, _)
join(a, sep) ==
    IF Len(a) = 0 THEN <<>>
    ELSE IF Len(a) = 1 THEN a[1]
    ELSE a[1] \o sep \o join(Tail(a), sep)

\* Array.prototype.slice(iFrom, iTo) with 0 <= iFrom, on 0-based indices
slice(a, iFrom, iTo) ==
    SubSeq(a, iFrom + 1, IF iTo > Len(a) THEN Len(a) ELSE iTo)

\* --------------------------------------------------------------- literals
S_Hash3 == <<"#","#","#"," ">>                       \* "### "
S_AlphaList ==                                       \* "alphabetical-list"
    <<"a","l","p","h","a","b","e","t","i","c","a","l","-","l","i","s","t">>
S_AName == <<"<","a"," ","n","a","m","e","=">>       \* "<a name="
S_Deprecated ==                                      \* "(deprecated)"
    <<"(","d","e","p","r","e","c","a","t","e","d",")">>
S_Pipe == <<"|">>                                    \* "|"
\* The backquote character (the module's lexer admits none in a string).
BQ == "U+0060"
S_Fence == <<BQ, BQ, BQ>>                            \* a code fence, three backquotes
S_Base64 == <<"B","a","s","e","6","4">>
S_Implicit == <<"I","m","p","l","i","c","i","t">>
S_Considerations ==
    <<"C","o","n","s","i","d","e","r","a","t","i","o","n","s">>

S_ParamHeader == <<"|"," ","P","a","r","a","m","e","t","e","r">>      \* "| Parameter"
S_ReturnHeader == <<"|"," ","R","e","t","u","r","n">>                 \* "| Return"
S_Note == <<">"," ","[","!","N","O","T","E","]">>                     \* "> [!NOTE]"
S_PipeSpace == <<"|"," ">>                                            \* "| "
S_Separator == <<"|"," ","-","-","-">>                                \* "| ---"
S_ReturnValueLc ==                                                    \* "| Return value"
    <<"|"," ","R","e","t","u","r","n"," ","v","a","l","u","e">>
S_ReturnValueUc ==                                                    \* "| Return Value"
    <<"|"," ","R","e","t","u","r","n"," ","V","a","l","u","e">>
S_Example == <<"*","E","x","a","m","p","l","e">>                      \* "*Example"
S_Dots == <<".",".",".">>                                             \* "..."
S_Br == <<"<","b","r">>                                               \* "<br"
S_Yes == <<"Y","e","s">>                                              \* "Yes"
S_Space == <<" ">>
S_Newline == <<"\n">>

\* ------------------------------------------------------------ regex helpers
\* the first position at or after from that holds character c, 0 if none
FindChar(s, c, from) == FindFrom(s, <<c>>, from)

\* One attempt, at position p, of a pattern  sOpen [^cStop]+ sClose  where
\* sClose begins with cStop: the position of the match's last character,
\* and the position where the bracketed text ends; 0 when there is no match.
DelimitedEnd(s, p, sOpen, cStop, sClose) ==
    IF ~MatchAt(s, p, sOpen) THEN 0
    ELSE LET q == FindChar(s, cStop, p + Len(sOpen))
         IN  IF q > p + Len(sOpen) /\ MatchAt(s, q, sClose)
             THEN q + Len(sClose) - 1
             ELSE 0

RECURSIVE ReplaceDelimited(_, _, _, _, _, _)
\* s.replace(new RegExp("sOpen([^cStop]+)sClose", "g"), bKeep ? "$1" : "")
\* from position p on: the text up to the leftmost match, the replacement,
\* and the rest from the end of the match on
ReplaceDelimited(s, p, sOpen, cStop, sClose, bKeep) ==
    IF \E q \in p..Len(s) : DelimitedEnd(s, q, sOpen, cStop, sClose) # 0
    THEN LET m == CHOOSE q \in p..Len(s) :
                      /\ DelimitedEnd(s, q, sOpen, cStop, sClose) # 0
                      /\ \A r \in p..(q - 1) : DelimitedEnd(s, r, sOpen, cStop, sClose) = 0
             e == DelimitedEnd(s, m, sOpen, cStop, sClose)
         IN  SubSeq(s, p, m - 1)
             \o (IF bKeep THEN SubSeq(s, m + Len(sOpen), e - Len(sClose)) ELSE <<>>)
             \o ReplaceDelimited(s, e + 1, sOpen, cStop, sClose, bKeep)
    ELSE SubSeq(s, p, Len(s))

\* One attempt at position p of  \[([^\]]+)\]\([^)]+\) : the positions of
\* the closing bracket and of the closing parenthesis, Null when no match.
LinkAt(s, p) ==
    IF ~(p <= Len(s) /\ s[p] = "[") THEN Null
    ELSE LET q == FindChar(s, "]", p + 1)
         IN  IF ~(q > p + 1 /\ q + 1 <= Len(s) /\ s[q + 1] = "(") THEN Null
             ELSE LET r == FindChar(s, ")", q + 2)
                  IN  IF r > q + 2 THEN [iBracket |-> q, iParen |-> r] ELSE Null

RECURSIVE ReplaceLinks(_, _)
\* s.replace(new RegExp("\\[([^\\]]+)\\]\\([^)]+\\)", "g"), "$1") from p on
ReplaceLinks(s, p) ==
    IF \E q \in p..Len(s) : LinkAt(s, q) # Null
    THEN LET m == CHOOSE q \in p..Len(s) :
                      LinkAt(s, q) # Null /\ \A r \in p..(q - 1) : LinkAt(s, r) = Null
             o == LinkAt(s, m)
         IN  SubSeq(s, p, m - 1)
             \o SubSeq(s, m + 1, o.iBracket - 1)
             \o ReplaceLinks(s, o.iParen + 1)
    ELSE SubSeq(s, p, Len(s))

\* One attempt at position p of  <br\s*/?>  (flag i): the position of the
\* match's last character, 0 when no match.
BrEnd(s, p) ==
    IF ~MatchAt(ToLower(s), p, S_Br) THEN 0
    ELSE LET q == SkipSpaces(s, p + 3)
         IN  IF q <= Len(s) /\ s[q] = ">" THEN q
             ELSE IF q + 1 <= Len(s) /\ s[q] = "/" /\ s[q + 1] = ">" THEN q + 1
             ELSE 0

RECURSIVE ReplaceBr(_, _)
\* s.replace(new RegExp("<br\\s*/?>", "gi"), " ") from p on
ReplaceBr(s, p) ==
    IF \E q \in p..Len(s) : BrEnd(s, q) # 0
    THEN LET m == CHOOSE q \in p..Len(s) :
                      BrEnd(s, q) # 0 /\ \A r \in p..(q - 1) : BrEnd(s, r) = 0
         IN  SubSeq(s, p, m - 1) \o S_Space \o ReplaceBr(s, BrEnd(s, m) + 1)
    ELSE SubSeq(s, p, Len(s))

RECURSIVE CollapseSpaces(_, _)
\* s.replace(new RegExp("\\s+", "g"), " ") from p on
CollapseSpaces(s, p) ==
    IF \E q \in p..Len(s) : IsSpace(s[q])
    THEN LET m == CHOOSE q \in p..Len(s) :
                      IsSpace(s[q]) /\ \A r \in p..(q - 1) : ~IsSpace(s[r])
         IN  SubSeq(s, p, m - 1) \o S_Space \o CollapseSpaces(s, SkipSpaces(s, m))
    ELSE SubSeq(s, p, Len(s))

\* Strip markdown formatting from text: the seven replaces in the order of
\* the code, each applied to the result of the one before, then trim
cleanMarkdown(sText) ==
    CHOOSE sOut \in
        {trim(CollapseSpaces(s6, 1)) :
         s6 \in {ReplaceDelimited(s5, 1, <<BQ>>, BQ, <<BQ>>, TRUE) :
         s5 \in {ReplaceDelimited(s4, 1, <<"*">>, "*", <<"*">>, TRUE) :
         s4 \in {ReplaceDelimited(s3, 1, <<"*","*">>, "*", <<"*","*">>, TRUE) :
         s3 \in {ReplaceDelimited(s2, 1, <<"<">>, ">", <<">">>, FALSE) :
         s2 \in {ReplaceBr(s1, 1) :
         s1 \in {ReplaceLinks(sText, 1)}}}}}}} : TRUE

\* ------------------------------------------------------------- headings
\* the name captured by  ^### ([a-zA-Z][a-zA-Z0-9]*)  : the position after
\* the identifier, 0 when the line does not begin so
HeadingNameEnd(sLine) ==
    IF MatchAt(sLine, 1, S_Hash3) /\ Len(sLine) >= 5 /\ IsAlpha(sLine[5])
    THEN SkipAlnum(sLine, 6)
    ELSE 0

\* ^### ([a-zA-Z][a-zA-Z0-9]*)\s*(?:\(.*\))?\s*$
MatchesHeadingRegex(sLine) ==
    LET p == HeadingNameEnd(sLine)
        a == SkipSpaces(sLine, p)
        b == SkipSpacesBack(sLine, Len(sLine))
    IN  /\ p # 0
        /\ \/ a > Len(sLine)
           \/ /\ sLine[a] = "("
              /\ sLine[b] = ")"
              /\ b > a
              /\ \A k \in (a + 1)..(b - 1) : sLine[k] \notin {"\n", "\r"}

\* ^### ([a-zA-Z][a-zA-Z0-9]*)\s+\(deprecated\)   (flag i)
MatchesDeprecatedRegex(sLine) ==
    LET p == HeadingNameEnd(sLine)
        a == SkipSpaces(sLine, p)
    IN  /\ p # 0
        /\ a > p
        /\ MatchAt(ToLower(sLine), a, S_Deprecated)

\* Match a line to see if it's a ### functionName heading
matchFunctionHeading(sLine) ==
    IF MatchesHeadingRegex(sLine)
    THEN [sName |-> SubSeq(sLine, 5, HeadingNameEnd(sLine) - 1)]
    ELSE IF MatchesDeprecatedRegex(sLine)
    THEN [sName |-> SubSeq(sLine, 5, HeadingNameEnd(sLine) - 1), bDeprecated |-> TRUE]
    ELSE Null

\* the line contains the anchor of the alphabetical list
IsAlphaMarker(sLine) == Contains(sLine, S_AlphaList) /\ Contains(sLine, S_AName)

RECURSIVE FindMarkerFrom(_, _)
FindMarkerFrom(aLines, i) ==
    IF i >= Len(aLines) THEN 0
    ELSE IF IsAlphaMarker(aLines[i + 1]) THEN i
    ELSE FindMarkerFrom(aLines, i + 1)

\* a search that answers -1 when no line carries the anchor
StartOrMinusOne(aLines) ==
    IF \E k \in DOMAIN aLines : IsAlphaMarker(aLines[k])
    THEN FindMarkerFrom(aLines, 0)
    ELSE -1

\* Find the line index where the alphabetical list section starts
findAlphabeticalListStart(aLines) == FindMarkerFrom(aLines, 0)

\* new RegExp("^##[#]? [A-Za-z]", "").test(sCheckLine)
IsSectionHeading(sLine) ==
    /\ Len(sLine) >= 4
    /\ sLine[1] = "#" /\ sLine[2] = "#"
    /\ \/ sLine[3] = " " /\ IsAlpha(sLine[4])
       \/ Len(sLine) >= 5 /\ sLine[3] = "#" /\ sLine[4] = " " /\ IsAlpha(sLine[5])

\* ------------------------------------------------------------ categories
aCategoryDefs ==
    <<
      [sLabel |-> "String",
       sPattern |-> <<"#","#"," ","S","t","r","i","n","g"," ","f","u","n","c","t","i","o","n","s">>],
      [sLabel |-> "Collection",
       sPattern |-> <<"#","#"," ","C","o","l","l","e","c","t","i","o","n"," ","f","u","n","c","t","i","o","n","s">>],
      [sLabel |-> "Logical comparison",
       sPattern |-> <<"#","#"," ","L","o","g","i","c","a","l"," ","c","o","m","p","a","r","i","s","o","n"," ","f","u","n","c","t","i","o","n","s">>],
      [sLabel |-> "Conversion",
       sPattern |-> <<"#","#"," ","C","o","n","v","e","r","s","i","o","n"," ","f","u","n","c","t","i","o","n","s">>],
      [sLabel |-> "Math",
       sPattern |-> <<"#","#"," ","M","a","t","h"," ","f","u","n","c","t","i","o","n","s">>],
      [sLabel |-> "Date and time",
       sPattern |-> <<"#","#"," ","D","a","t","e"," ","a","n","d"," ","t","i","m","e"," ","f","u","n","c","t","i","o","n","s">>],
      [sLabel |-> "Workflow",
       sPattern |-> <<"#","#"," ","W","o","r","k","f","l","o","w"," ","f","u","n","c","t","i","o","n","s">>],
      [sLabel |-> "URI parsing",
       sPattern |-> <<"#","#"," ","U","R","I"," ","p","a","r","s","i","n","g"," ","f","u","n","c","t","i","o","n","s">>],
      [sLabel |-> "Manipulation",
       sPattern |-> <<"#","#"," ","M","a","n","i","p","u","l","a","t","i","o","n"," ","f","u","n","c","t","i","o","n","s">>]
    >>

RECURSIVE CategoryFrom(_, _)
\* the label of the first category definition, from index c on, whose
\* regular expression (unanchored, flag i) matches the line; "" if none
CategoryFrom(sLine, c) ==
    IF c > Len(aCategoryDefs) THEN ""
    ELSE IF Contains(ToLower(sLine), ToLower(aCategoryDefs[c].sPattern))
    THEN aCategoryDefs[c].sLabel
    ELSE CategoryFrom(sLine, c + 1)

RECURSIVE RowNameFrom(_, _)
\* sLine.match(new RegExp("\\| \\[([a-zA-Z][a-zA-Z0-9]*)\\]", "")): the
\* captured name of the leftmost match at or after position p, Null if none
RowNameFrom(sLine, p) ==
    IF p + 4 > Len(sLine) THEN Null
    ELSE IF /\ sLine[p] = "|" /\ sLine[p + 1] = " " /\ sLine[p + 2] = "["
            /\ IsAlpha(sLine[p + 3])
            /\ SkipAlnum(sLine, p + 4) <= Len(sLine)
            /\ sLine[SkipAlnum(sLine, p + 4)] = "]"
    THEN [sName |-> SubSeq(sLine, p + 3, SkipAlnum(sLine, p + 4) - 1)]
    ELSE RowNameFrom(sLine, p + 1)

\* ----------------------------------------------------------- description
\* aBlock[i] of the source (0-based), trimmed
TrimmedAt(aBlock, i) == trim(aBlock[i + 1])

\* the line begins with ">"  (sLine.indexOf(">") === 0)
IsQuoteLine(sLine) == indexOf(sLine, <<">">>) = 0

RECURSIVE SkipNoteFrom(_, _)
\* the while loop of skipNoteBlock, from index i on
SkipNoteFrom(aBlock, i) ==
    IF i >= Len(aBlock) THEN i - 1
    ELSE LET sLine == TrimmedAt(aBlock, i)
         IN  IF ~IsQuoteLine(sLine) /\ sLine # <<>> THEN i - 1
             ELSE IF /\ sLine = <<>>
                     /\ i + 1 < Len(aBlock)
                     /\ ~IsQuoteLine(TrimmedAt(aBlock, i + 1))
             THEN i
             ELSE SkipNoteFrom(aBlock, i + 1)

\* a skip of the line of the note marker alone
SkipNoteLineOnly(aBlock, iStart) == iStart

\* Skip past a > [!NOTE] block
skipNoteBlock(aBlock, iStart) == SkipNoteFrom(aBlock, iStart + 1)

RECURSIVE findNextNonEmpty(_, _)
\* Find the next non-empty line index
findNextNonEmpty(aBlock, iStart) ==
    IF iStart >= Len(aBlock) THEN -1
    ELSE IF TrimmedAt(aBlock, iStart) # <<>> THEN iStart
    ELSE findNextNonEmpty(aBlock, iStart + 1)

\* a code fence or a parameter/return table header ends the description
EndsDescription(sLine) ==
    \/ Contains(sLine, S_Fence)
    \/ Contains(sLine, S_ParamHeader)
    \/ Contains(sLine, S_ReturnHeader)

\* The state of the for loop of extractDescription: the loop index, the
\* flag, the lines collected, and whether the loop has been left by break.
DescStart == [i |-> 0, bStarted |-> FALSE, aDescLines |-> <<>>, bBreak |-> FALSE]

\* One iteration of the for loop of extractDescription (i < aBlock.length)
DescIter(aBlock, st) ==
    LET sLine == TrimmedAt(aBlock, st.i)
        iNext == findNextNonEmpty(aBlock, st.i + 1)
    IN  IF ~st.bStarted /\ (sLine = <<>> \/ Contains(sLine, S_AName))
        THEN [st EXCEPT !.i = st.i + 1]
        ELSE IF EndsDescription(sLine)
        THEN [st EXCEPT !.bBreak = TRUE]
        ELSE IF ~st.bStarted /\ Contains(sLine, S_Note)
        THEN [st EXCEPT !.i = skipNoteBlock(aBlock, st.i) + 1]
        ELSE IF sLine = <<>>
        THEN IF /\ iNext >= 0
                /\ \/ Contains(TrimmedAt(aBlock, iNext), S_Fence)
                   \/ Contains(TrimmedAt(aBlock, iNext), S_PipeSpace)
             THEN [st EXCEPT !.bBreak = TRUE]
             ELSE [st EXCEPT !.i = st.i + 1,
                             !.aDescLines =
                                 IF Len(st.aDescLines) > 0
                                 THEN Append(st.aDescLines, <<>>)
                                 ELSE st.aDescLines]
        ELSE [st EXCEPT !.i = st.i + 1,
                        !.bStarted = TRUE,
                        !.aDescLines = Append(st.aDescLines, sLine)]

\* the for loop of extractDescription has ended
DescLoopOver(aBlock, st) == st.bBreak \/ st.i >= Len(aBlock)

RECURSIVE DescRun(_, _)
DescRun(aBlock, st) ==
    IF DescLoopOver(aBlock, st) THEN st
    ELSE CHOOSE stEnd \in {DescRun(aBlock, stNext) : stNext \in {DescIter(aBlock, st)}} : TRUE

\* the return statement of extractDescription
DescResult(aDescLines) == cleanMarkdown(trim(join(aDescLines, S_Space)))

\* Extract the description text from a function block
extractDescription(aBlock) == DescResult(DescRun(aBlock, DescStart).aDescLines)

\* ---------------------------------------------------------------- syntax
RECURSIVE SyntaxLoop(_, _, _, _)
SyntaxLoop(aBlock, i, bInCode, aSyntaxLines) ==
    IF i >= Len(aBlock) THEN aSyntaxLines
    ELSE LET sLine == TrimmedAt(aBlock, i)
         IN  IF Contains(sLine, S_Fence) /\ ~bInCode
             THEN SyntaxLoop(aBlock, i + 1, TRUE, aSyntaxLines)
             ELSE IF Contains(sLine, S_Fence) /\ bInCode
             THEN aSyntaxLines
             ELSE IF bInCode
             THEN SyntaxLoop(aBlock, i + 1, bInCode, Append(aSyntaxLines, sLine))
             ELSE SyntaxLoop(aBlock, i + 1, bInCode, aSyntaxLines)

\* Extract the syntax from a function block (first code block)
extractSyntax(aBlock) == trim(join(SyntaxLoop(aBlock, 0, FALSE, <<>>), S_Newline))

\* ------------------------------------------------------------ parameters
RECURSIVE SplitChar(_, _, _)
\* String.prototype.split(c) for a one-character separator: the pieces of
\* s from position p on
SplitChar(s, c, p) ==
    LET q == FindChar(s, c, p)
    IN  IF q = 0 THEN <<SubSeq(s, p, Len(s))>>
        ELSE <<SubSeq(s, p, q - 1)>> \o SplitChar(s, c, q + 1)

RECURSIVE SplitCommaSpaces(_, _)
\* s.split(new RegExp(",\\s*", "")): the pieces of s from position p on
SplitCommaSpaces(s, p) ==
    LET q == FindChar(s, ",", p)
    IN  IF q = 0 THEN <<SubSeq(s, p, Len(s))>>
        ELSE <<SubSeq(s, p, q - 1)>> \o SplitCommaSpaces(s, SkipSpaces(s, q + 1))

RECURSIVE RemoveAll(_, _, _)
\* s.replace(new RegExp(pat, "g"), "") for a literal pat, from p on
RemoveAll(s, pat, p) ==
    LET q == FindFrom(s, pat, p)
    IN  IF q = 0 THEN SubSeq(s, p, Len(s))
        ELSE SubSeq(s, p, q - 1) \o RemoveAll(s, pat, q + Len(pat))

NotBlank(s) == trim(s) # <<>>

RECURSIVE FilterNotBlank(_)
\* a.filter(function (s) { return s.trim() !== ""; })
FilterNotBlank(a) ==
    IF Len(a) = 0 THEN <<>>
    ELSE (IF NotBlank(a[1]) THEN <<a[1]>> ELSE <<>>) \o FilterNotBlank(Tail(a))

\* sRow.split("|").filter(function (s) { return s.trim() !== ""; })
RowCells(sRow) == FilterNotBlank(SplitChar(sRow, "|", 1))

\* Clean the parameter name: remove <*...*>, angle brackets, etc.
CleanName(sRawName) ==
    LET s1 == RemoveAll(sRawName, <<"<","*">>, 1)
        s2 == RemoveAll(s1, <<"*",">">>, 1)
        s3 == RemoveAll(RemoveAll(s2, <<"<">>, 1), <<">">>, 1)
        s4 == RemoveAll(s3, <<"*">>, 1)
    IN  trim(s4)

\* a test that does not look for the variadic "..." pattern
IsCombinedRowAlways(aNames, sCleanName) == Len(aNames) > 1

\* a combined parameter row (e.g., "summand_1, summand_2") but not a
\* variadic "..." pattern
IsCombinedRow(aNames, sCleanName) ==
    Len(aNames) > 1 /\ ~Contains(sCleanName, S_Dots)

RECURSIVE CombinedParams(_, _, _)
\* the for loop over aNames of parseTableRow, from index n (0-based) on
CombinedParams(aNames, n, oShared) ==
    IF n >= Len(aNames) THEN <<>>
    ELSE LET sName == trim(aNames[n + 1])
         IN  (IF sName # <<>> /\ sName # S_Dots
              THEN <<[sName |-> sName,
                      bRequired |-> oShared.bRequired,
                      sType |-> oShared.sType,
                      sDescription |-> oShared.sDescription]>>
              ELSE <<>>)
             \o CombinedParams(aNames, n + 1, oShared)

\* Parse a markdown table row into one or more parameter objects: null, an
\* array of parameter objects, or a single parameter object.
parseTableRow(sRow) ==
    LET aCells == RowCells(sRow)
    IN  IF Len(aCells) >= 4
        THEN LET sRawName == trim(aCells[1])
                 sRequired == trim(aCells[2])
                 sType == trim(aCells[3])
                 sDescription == cleanMarkdown(trim(aCells[4]))
                 sCleanName == CleanName(sRawName)
                 aNames == SplitCommaSpaces(sCleanName, 1)
                 oShared == [bRequired |-> sRequired = S_Yes,
                             sType |-> sType,
                             sDescription |-> sDescription]
             IN  IF IsCombinedRow(aNames, sCleanName)
                 THEN [kind |-> "array", a |-> CombinedParams(aNames, 0, oShared)]
                 ELSE [kind |-> "object",
                       o |-> [sName |-> sCleanName,
                              bRequired |-> oShared.bRequired,
                              sType |-> oShared.sType,
                              sDescription |-> oShared.sDescription]]
        ELSE Null

\* a push that does not test the value returned by parseTableRow
PushedParamsUntested(oParam) ==
    IF oParam = Null THEN <<Null>>
    ELSE IF oParam.kind = "array" THEN oParam.a
    ELSE <<oParam.o>>

\* what extractParameters pushes for a value returned by parseTableRow
PushedParams(oParam) ==
    IF oParam = Null THEN <<>>
    ELSE IF oParam.kind = "array" THEN oParam.a
    ELSE <<oParam.o>>

\* The state of the for loop of extractParameters.
ParamStart ==
    [i |-> 0, bInParamTable |-> FALSE, iHeaderRowsSeen |-> 0,
     aParams |-> <<>>, bBreak |-> FALSE]

\* One iteration of the for loop of extractParameters (i < aBlock.length)
ParamIter(aBlock, st) ==
    LET sLine == TrimmedAt(aBlock, st.i)
    IN  IF Contains(sLine, S_ParamHeader)
        THEN [st EXCEPT !.i = st.i + 1, !.bInParamTable = TRUE, !.iHeaderRowsSeen = 0]
        ELSE IF ~st.bInParamTable
        THEN [st EXCEPT !.i = st.i + 1]
        ELSE IF Contains(sLine, S_Separator)
        THEN [st EXCEPT !.i = st.i + 1, !.iHeaderRowsSeen = st.iHeaderRowsSeen + 1]
        ELSE IF \/ sLine = <<>>
                \/ ~Contains(sLine, S_Pipe) /\ ~Contains(sLine, S_ReturnHeader)
        THEN [st EXCEPT !.bBreak = TRUE]
        ELSE IF Contains(sLine, S_ReturnHeader)
        THEN [st EXCEPT !.bBreak = TRUE]
        ELSE [st EXCEPT !.i = st.i + 1,
                        !.aParams = st.aParams \o PushedParams(parseTableRow(sLine))]

ParamLoopOver(aBlock, st) == st.bBreak \/ st.i >= Len(aBlock)

RECURSIVE ParamRun(_, _)
ParamRun(aBlock, st) ==
    IF ParamLoopOver(aBlock, st) THEN st
    ELSE CHOOSE stEnd \in {ParamRun(aBlock, stNext) : stNext \in {ParamIter(aBlock, st)}} : TRUE

\* Extract parameters from the parameter table
extractParameters(aBlock) == ParamRun(aBlock, ParamStart).aParams

\* ----------------------------------------------------------- return info
\* a default that names a type
UnknownReturnInfo == [sType |-> <<"A","n","y">>, sDescription |-> <<>>]

\* return { sType: "", sDescription: "" }
NoReturnInfo == [sType |-> <<>>, sDescription |-> <<>>]

RECURSIVE ReturnLoop(_, _, _)
\* the for loop of extractReturnInfo, from index i on
ReturnLoop(aBlock, i, bInReturnTable) ==
    IF i >= Len(aBlock) THEN NoReturnInfo
    ELSE LET sLine == TrimmedAt(aBlock, i)
             aCells == RowCells(sLine)
         IN  IF Contains(sLine, S_ReturnValueLc) \/ Contains(sLine, S_ReturnValueUc)
             THEN ReturnLoop(aBlock, i + 1, TRUE)
             ELSE IF ~bInReturnTable
             THEN ReturnLoop(aBlock, i + 1, bInReturnTable)
             ELSE IF Contains(sLine, S_Separator)
             THEN ReturnLoop(aBlock, i + 1, bInReturnTable)
             ELSE IF Contains(sLine, S_Pipe) /\ Len(aCells) >= 3
             THEN [sType |-> cleanMarkdown(trim(aCells[2])),
                   sDescription |-> cleanMarkdown(trim(aCells[3]))]
             ELSE NoReturnInfo

\* Extract return value info from the return value table
extractReturnInfo(aBlock) == ReturnLoop(aBlock, 0, FALSE)

\* -------------------------------------------------------------- examples
\* The state of the for loop of extractExamples.
ExampleStart ==
    [i |-> 0, bFoundExampleHeader |-> FALSE, bInCode |-> FALSE,
     iCodeBlockCount |-> 0, aCurrentExample |-> <<>>, aExamples |-> <<>>]

\* a test that does not look at the lines collected
PushesEmptyToo(st) == st.iCodeBlockCount + 1 = 1

\* iCodeBlockCount === 1 && aCurrentExample.length > 0, after the increment
PushesExample(st) == st.iCodeBlockCount + 1 = 1 /\ Len(st.aCurrentExample) > 0

\* One iteration of the for loop of extractExamples (i < aBlock.length)
ExampleIter(aBlock, st) ==
    LET sLine == TrimmedAt(aBlock, st.i)
        bPush == PushesExample(st)
    IN  IF Contains(sLine, S_Example)
        THEN [st EXCEPT !.i = st.i + 1, !.bFoundExampleHeader = TRUE,
                        !.iCodeBlockCount = 0]
        ELSE IF ~st.bFoundExampleHeader
        THEN [st EXCEPT !.i = st.i + 1]
        ELSE IF Contains(sLine, S_Fence) /\ ~st.bInCode
        THEN [st EXCEPT !.i = st.i + 1, !.bInCode = TRUE]
        ELSE IF Contains(sLine, S_Fence) /\ st.bInCode
        THEN [st EXCEPT !.i = st.i + 1, !.bInCode = FALSE,
                        !.iCodeBlockCount = st.iCodeBlockCount + 1,
                        !.aExamples =
                            IF bPush
                            THEN Append(st.aExamples, join(st.aCurrentExample, S_Newline))
                            ELSE st.aExamples,
                        !.aCurrentExample =
                            IF bPush THEN <<>> ELSE st.aCurrentExample]
        ELSE IF st.bInCode /\ st.iCodeBlockCount = 0
        THEN [st EXCEPT !.i = st.i + 1,
                        !.aCurrentExample = Append(st.aCurrentExample, sLine)]
        ELSE [st EXCEPT !.i = st.i + 1]

RECURSIVE ExampleRun(_, _)
ExampleRun(aBlock, st) ==
    IF st.i >= Len(aBlock) THEN st
    ELSE CHOOSE stEnd \in {ExampleRun(aBlock, stNext) : stNext \in {ExampleIter(aBlock, st)}} : TRUE

\* Extract examples from a function block
extractExamples(aBlock) == ExampleRun(aBlock, ExampleStart).aExamples

\* a registration that does not look at the current category
RegistersRowAnywhere(sCategory, sLine) ==
    /\ Contains(sLine, S_Pipe)
    /\ RowNameFrom(sLine, 1) # Null

\* a table row registers its function name under the current category
RegistersRow(sCategory, sLine) ==
    /\ sCategory # ""
    /\ Contains(sLine, S_Pipe)
    /\ RowNameFrom(sLine, 1) # Null

\* -------------------------------------------------------- function block
\* Skip known non-function headings
aSkipNames == <<S_Base64, S_Implicit, S_Considerations>>

\* The names an object literal {} inherits from Object.prototype that the
\* identifier pattern [a-zA-Z][a-zA-Z0-9]* admits; each is a function.
ObjectPrototypeNames ==
    { <<"c","o","n","s","t","r","u","c","t","o","r">>,
      <<"h","a","s","O","w","n","P","r","o","p","e","r","t","y">>,
      <<"i","s","P","r","o","t","o","t","y","p","e","O","f">>,
      <<"p","r","o","p","e","r","t","y","I","s","E","n","u","m","e","r","a","b","l","e">>,
      <<"t","o","L","o","c","a","l","e","S","t","r","i","n","g">>,
      <<"t","o","S","t","r","i","n","g">>,
      <<"v","a","l","u","e","O","f">> }

\* A function object (the value of an inherited method): not a string.
NativeFunction == "[Function]"

\* oCategoryMap[sName] || "Other" : an own property, else the property
\* inherited from Object.prototype, else undefined
CategoryOf(oCategoryMap, sName) ==
    IF sName \in DOMAIN oCategoryMap THEN oCategoryMap[sName]
    ELSE IF sName \in ObjectPrototypeNames THEN NativeFunction
    ELSE "Other"

RECURSIVE BlockEndFrom(_, _, _, _)
\* Find the end of this function block (next ### or ## heading, or EOF):
\* the while loop of extractFunctionBlock, from iEndIndex on; the test of
\* a line that is undefined is false
BlockEndFrom(aLines, iStartIndex, iLineCount, iEndIndex) ==
    IF iEndIndex >= iLineCount THEN iEndIndex
    ELSE IF /\ iEndIndex < Len(aLines)
            /\ IsSectionHeading(aLines[iEndIndex + 1])
            /\ iEndIndex > iStartIndex + 1
    THEN iEndIndex
    ELSE BlockEndFrom(aLines, iStartIndex, iLineCount, iEndIndex + 1)

InSeq(x, a) == \E k \in DOMAIN a : a[k] = x

\* a result that stays on the heading
StaysOnHeading(iStartIndex) == [oFunc |-> Null, iNextIndex |-> iStartIndex]

\* a result that steps over the line after the heading as well
SkipTwoLines(iStartIndex) == [oFunc |-> Null, iNextIndex |-> iStartIndex + 2]

\* return { oFunc: null, iNextIndex: iStartIndex + 1 }
NoFunc(iStartIndex) == [oFunc |-> Null, iNextIndex |-> iStartIndex + 1]

\* a flag that is set unless the heading says otherwise
DeprecatedByDefault(oHeading) ==
    IF "bDeprecated" \in DOMAIN oHeading THEN oHeading.bDeprecated ELSE TRUE

\* const bDeprecated = oHeading.bDeprecated || false
bDeprecated(oHeading) ==
    IF "bDeprecated" \in DOMAIN oHeading THEN oHeading.bDeprecated ELSE FALSE

\* Extract a full function block starting at the heading line
extractFunctionBlock(aLines, iStartIndex, iLineCount, oCategoryMap) ==
    LET oHeading == matchFunctionHeading(aLines[iStartIndex + 1])
    IN  IF oHeading = Null \/ InSeq(oHeading.sName, aSkipNames)
        THEN NoFunc(iStartIndex)
        ELSE LET iEndIndex == BlockEndFrom(aLines, iStartIndex, iLineCount, iStartIndex + 1)
                 aBlock == slice(aLines, iStartIndex + 1, iEndIndex)
                 oReturnInfo == extractReturnInfo(aBlock)
             IN  [oFunc |->
                      [sName |-> oHeading.sName,
                       sDescription |-> extractDescription(aBlock),
                       sSyntax |-> extractSyntax(aBlock),
                       aParameters |-> extractParameters(aBlock),
                       sReturnType |-> oReturnInfo.sType,
                       sReturnDescription |-> oReturnInfo.sDescription,
                       sCategory |-> CategoryOf(oCategoryMap, oHeading.sName),
                       aExamples |-> extractExamples(aBlock),
                       bDeprecated |-> bDeprecated(oHeading)],
                  iNextIndex |-> iEndIndex]

\* ================================================================ state
VARIABLES
    aLines,            \* parseFunctionReference: sContent.split("\n")
    pc,                \* where parseFunctionReference stands
    i,                 \* buildCategoryMap: the loop index
    sCurrentCategory,  \* buildCategoryMap: the current category label
    oMap,              \* buildCategoryMap: name -> category
    iLineIndex,        \* parseFunctionReference: the scan index
    aFunctions,        \* parseFunctionReference: the entries pushed
    hBlocks,           \* history: per entry pushed, its heading line and
                       \* the iNextIndex extractFunctionBlock returned
    aBlock,            \* the block an extractor is run on by itself
    pcBlock,           \* where that extractor stands
    stDesc,            \* extractDescription: the state of its for loop
    sDescription,      \* extractDescription: the value returned
    stParam,           \* extractParameters: the state of its for loop
    oReturnInfo,       \* extractReturnInfo: the value returned
    stExample,         \* extractExamples: the state of its for loop
    iParses,           \* history: the number of parses entered
    hEarlier,          \* history: one parse that returned earlier (any of
                       \* them), its document and the list it returned
    oTokenCache,       \* dataverseClient: environment URL -> token
    aTimers,           \* the timers set at a sign-in that have not fired:
                       \* the environment URL each deletes and when it is due
    oSignIn,           \* the sign-in under way (the local server listens),
                       \* its environment URL and when its timeout is due
    iNow,              \* the time, in minutes
    iTokens,           \* the number of tokens issued by sign-ins
    oGot,              \* how the last call of getToken was settled
    hSignIn,           \* history: environment URL -> the token of the last
                       \* successful sign-in and its time, until clearToken
                       \* is called for the environment
    oGlobalState,      \* oContext.globalState: key -> value
    oLastCall,         \* history: the last call on the saved lists, its
                       \* arguments, the tenant's list before it and the
                       \* value it returned
    hAdds,             \* history: tenant -> the URLs of the calls of
                       \* addEnvToTenantList since the last clear, in order
    hEverAdded,        \* history: the tenants for which addEnvToTenantList
                       \* was ever called with a URL
    pcUpdate,          \* updateFlow: where the command stands
    sFileName,         \* updateFlow: the name of the file of the editor
    sFlowId,           \* updateFlow: the flow ID
    oTarget,           \* updateFlow: sEnvUrl and sTenantId of oDoUpdate
    aShown,            \* the messages shown by the command, in order
    aRequests,         \* the requests sent to Dataverse, in order
    hSteps,            \* history: what the command went through, in order
    pcExt,             \* extension.js: "start", "active" after activate has
                       \* run to its end, "failed" after an early return
    aIntellisenseDisposables,  \* extension.js: the disposables of the
                       \* providers registered, as places in aProviders
    aProviders,        \* the providers registered with the editor, in
                       \* order: the kind of each and whether it is disposed
    aSubscriptions,    \* oContext.subscriptions, as places in aProviders
                       \* and the toggle command
    iToggles,          \* history: the number of Toggle commands run
    pcOpen,            \* flowCommands.js: where the command Open Flow stands
    oOpenArgs,         \* openFlow: the arguments of oDoOpen
    oWorkspaceState,   \* oContext.workspaceState: key -> value
    sEditorFile,       \* the file name of the active editor, null without one
    hFiles,            \* the files written to the temporary directory:
                       \* file name -> the arguments of the oDoOpen that wrote it
    iOpens,            \* history: the number of Open Flow commands run
    pcSignIn,          \* flowCommands.js: where the command Sign In stands
    sSignInTenant,     \* signIn: sTenantId, the tenant the prompt returned
    oPrompt,           \* history: the last tenant prompt settled: the stored
                       \* tenant, the answer and the global state before it
    iCommands,         \* history: the number of Sign In commands run
    sAtLine,           \* the text of the line the nested-@ cleanup works on
    pcAt,              \* where a cleanup pass stands: "scan", "apply", "done"
    aAtEdits,          \* findNestedAtEdits: the columns (0-based) of the
                       \* characters its edits delete
    iPasses,           \* history: the number of cleanup passes applied
    hAtLines,          \* history: the text before each pass applied
    aSkillFiles,       \* the directories under ~/.copilot/skills that hold
                       \* a SKILL.md
    oSkillFlags,       \* oContext.globalState: install flag -> value
    bSkillSource,      \* the extension's directory holds its skill files
    iActivations,      \* history: the number of activations
    hInstallRuns,      \* history: the number of calls of installSkillFile
    sDocLine,          \* the text of the line of the active document
    bCleaningUpAt,     \* extension.js: bCleaningUpAt
    pcApply,           \* where the applyEdit of the listener stands:
                       \* "none", "issued", "applied"
    aPendingEdits,     \* the columns the edits of that applyEdit delete
    iChanges,          \* history: the number of changes made by the user
    iIssued            \* history: the number of calls of applyEdit

parseVars == <<aLines, pc, i, sCurrentCategory, oMap, iLineIndex, aFunctions, hBlocks>>
blockVars == <<aBlock, pcBlock, stDesc, sDescription, stParam>>
returnVars == <<oReturnInfo>>
\* the variables of everything but the parse and the two stepped extractors
exampleVars == <<stExample>>
repeatVars == <<iParses, hEarlier>>
tokenVars == <<oTokenCache, aTimers, oSignIn, iNow, iTokens, oGot, hSignIn>>
\* the variables of the extension outside the parser
envListVars == <<oGlobalState, oLastCall, hAdds, hEverAdded>>
updateVars == <<pcUpdate, sFileName, sFlowId, oTarget, aShown, aRequests, hSteps>>
intellisenseVars == <<pcExt, aIntellisenseDisposables, aProviders, aSubscriptions, iToggles>>
openVars == <<pcOpen, oOpenArgs, oWorkspaceState, sEditorFile, hFiles, iOpens>>
signInVars == <<pcSignIn, sSignInTenant, oPrompt, iCommands>>
atVars == <<sAtLine, pcAt, aAtEdits, iPasses, hAtLines>>
skillVars == <<aSkillFiles, oSkillFlags, bSkillSource, iActivations, hInstallRuns>>
cleanupVars == <<sDocLine, bCleaningUpAt, pcApply, aPendingEdits, iChanges, iIssued>>
moreVars == <<atVars, skillVars, cleanupVars>>
extensionVars ==
    <<tokenVars, envListVars, updateVars, intellisenseVars, openVars, signInVars, moreVars>>
\* the variables of what is outside the parser's extractors
restVars == <<repeatVars, extensionVars>>
otherVars == <<returnVars, exampleVars, restVars>>
vars == <<parseVars, blockVars, otherVars>>

\* ------------------------------------------------------------- documents
L_Blank == <<>>
L_Add == <<"#","#","#"," ","a","d","d">>                     \* "### add"
L_SubDeprecated ==                                           \* "### sub (Deprecated) x"
    <<"#","#","#"," ","s","u","b"," ","(","D","e","p","r","e","c","a","t","e","d",")"," ","x">>
L_Base64 == <<"#","#","#"," ","B","a","s","e","6","4">>      \* "### Base64"
L_ToString ==                                                \* "### toString"
    <<"#","#","#"," ","t","o","S","t","r","i","n","g">>
L_MathFunctions ==                                           \* "## Math functions"
    <<"#","#"," ","M","a","t","h"," ","f","u","n","c","t","i","o","n","s">>
L_StringFunctions ==                                         \* "## String functions"
    <<"#","#"," ","S","t","r","i","n","g"," ","f","u","n","c","t","i","o","n","s">>
L_RowAdd ==                                                  \* "| [add](#add) | (deprecated) |"
    <<"|"," ","[","a","d","d","]","(","#","a","d","d",")"," ","|"," ",
      "(","d","e","p","r","e","c","a","t","e","d",")"," ","|">>
L_Marker ==                                                  \* <a name="alphabetical-list"></a>
    <<"<","a"," ","n","a","m","e","=","\"","a","l","p","h","a","b","e","t","i","c","a","l",
      "-","l","i","s","t","\"",">","<","/","a",">">>
L_MarkerRow ==                         \* | [sub](#sub) | <a name="alphabetical-list"></a> |
    <<"|"," ","[","s","u","b","]","(","#","s","u","b",")"," ","|"," ",
      "<","a"," ","n","a","m","e","=","\"","a","l","p","h","a","b","e","t","i","c","a","l",
      "-","l","i","s","t","\"",">","<","/","a",">"," ","|">>

\* the lines the documents of a whole parse are built from
DocLines ==
    {L_Blank, L_Add, L_SubDeprecated, L_Base64, L_ToString,
     L_MathFunctions, L_RowAdd, L_Marker, S_Fence, S_ParamHeader}

\* the lines the documents of the category pass alone are built from
CategoryLines ==
    {L_MathFunctions, L_StringFunctions, L_RowAdd, L_Marker, L_MarkerRow}

\* every array of 1..n lines over a set of lines
SeqsUpTo(S, n) == UNION {[1..k -> S] : k \in 1..n}

\* a count that is one more than the number of lines
LineCountPlusOne(a) == Len(a) + 1

\* const iLineCount = aLines.length
LineCount(a) == Len(a)

\* an array read: undefined outside the array
LineAt(a, k) == IF k >= 0 /\ k < Len(a) THEN a[k + 1] ELSE Undefined

\* ------------------------------------------------------------------ init
\* no block extractor is run by itself
BlockIdle ==
    /\ aBlock = <<>>
    /\ pcBlock = "idle"
    /\ stDesc = DescStart
    /\ sDescription = Undefined
    /\ stParam = ParamStart

\* nothing else is run
RepeatIdle ==
    /\ iParses = 1
    /\ hEarlier = Null

\* let oTokenCache = {}: no token, no timer, no sign-in under way
TokenIdle ==
    /\ oTokenCache = <<>>
    /\ aTimers = {}
    /\ oSignIn = Null
    /\ iNow = 0
    /\ iTokens = 0
    /\ oGot = Null
    /\ hSignIn = <<>>

\* a fresh globalState: no key is stored
EnvListIdle ==
    /\ oGlobalState = <<>>
    /\ oLastCall = Null
    /\ hAdds = <<>>
    /\ hEverAdded = {}

\* a string that is null
NullString == <<"null">>

\* the command is not run
UpdateIdle ==
    /\ pcUpdate = "idle"
    /\ sFileName = NullString
    /\ sFlowId = NullString
    /\ oTarget = Null
    /\ aShown = <<>>
    /\ aRequests = <<>>
    /\ hSteps = <<>>

\* let aIntellisenseDisposables = []: the extension is not activated
IntellisenseIdle ==
    /\ pcExt = "start"
    /\ aIntellisenseDisposables = <<>>
    /\ aProviders = <<>>
    /\ aSubscriptions = <<>>
    /\ iToggles = 0

\* no Open Flow command has run: nothing is stored for a flow, no file
\* is written and no editor is open
OpenIdle ==
    /\ pcOpen = "idle"
    /\ oOpenArgs = Null
    /\ oWorkspaceState = <<>>
    /\ sEditorFile = NullString
    /\ hFiles = <<>>
    /\ iOpens = 0

\* no Sign In command has run
SignInIdle ==
    /\ pcSignIn = "idle"
    /\ sSignInTenant = ""
    /\ oPrompt = Null
    /\ iCommands = 0

\* no cleanup pass has run
AtIdle ==
    /\ sAtLine = <<>>
    /\ pcAt = "done"
    /\ aAtEdits = {}
    /\ iPasses = 0
    /\ hAtLines = <<>>

\* no activation has looked at the skill files
SkillIdle ==
    /\ aSkillFiles = {}
    /\ oSkillFlags = <<>>
    /\ bSkillSource = TRUE
    /\ iActivations = 0
    /\ hInstallRuns = 0

\* no document has changed
CleanupIdle ==
    /\ sDocLine = <<>>
    /\ bCleaningUpAt = FALSE
    /\ pcApply = "none"
    /\ aPendingEdits = {}
    /\ iChanges = 0
    /\ iIssued = 0

MoreIdle ==
    /\ AtIdle
    /\ SkillIdle
    /\ CleanupIdle

RestIdle ==
    /\ RepeatIdle
    /\ TokenIdle
    /\ EnvListIdle
    /\ UpdateIdle
    /\ IntellisenseIdle
    /\ OpenIdle
    /\ SignInIdle
    /\ MoreIdle

OtherIdle ==
    /\ oReturnInfo = Null
    /\ stExample = ExampleStart
    /\ RestIdle

\* no parse is run
ParseIdle ==
    /\ aLines = <<L_Blank>>
    /\ pc = "idle"
    /\ i = 0
    /\ sCurrentCategory = ""
    /\ oMap = <<>>
    /\ iLineIndex = 0
    /\ aFunctions = <<>>
    /\ hBlocks = <<>>

\* parseFunctionReference is entered with the document aLines
ParseStart ==
    /\ pc = "buildCategoryMap"
    /\ i = 0
    /\ sCurrentCategory = ""
    /\ oMap = <<>>
    /\ iLineIndex = 0
    /\ aFunctions = <<>>
    /\ hBlocks = <<>>

Init ==
    /\ aLines \in SeqsUpTo(DocLines, MaxLines)
    /\ ParseStart
    /\ BlockIdle
    /\ OtherIdle

\* --------------------------------------------------------------- actions
\* One iteration of the for loop of buildCategoryMap.  A read of a line
\* that is undefined throws at sLine.indexOf.
BuildCategoryMapIter ==
    /\ pc = "buildCategoryMap"
    /\ i < Len(aLines)
    /\ LET sLine == LineAt(aLines, i)
           sLabel == CategoryFrom(sLine, 1)
           sCategory == IF sLabel # "" THEN sLabel ELSE sCurrentCategory
           oRow == RowNameFrom(sLine, 1)
       IN  IF sLine = Undefined
           THEN /\ pc' = "threw"
                /\ UNCHANGED <<i, sCurrentCategory, oMap>>
           ELSE /\ sCurrentCategory' = sCategory
                /\ IF IsAlphaMarker(sLine)
                   THEN /\ pc' = "findStart"
                        /\ UNCHANGED <<i, oMap>>
                   ELSE /\ pc' = pc
                        /\ i' = i + 1
                        /\ oMap' = IF RegistersRow(sCategory, sLine)
                                   THEN (oRow.sName :> sCategory) @@ oMap
                                   ELSE oMap
    /\ UNCHANGED <<aLines, iLineIndex, aFunctions, hBlocks>>
    /\ UNCHANGED <<blockVars, otherVars>>

\* The for loop of buildCategoryMap ends at the last line.
BuildCategoryMapReturn ==
    /\ pc = "buildCategoryMap"
    /\ i >= Len(aLines)
    /\ pc' = "findStart"
    /\ UNCHANGED <<aLines, i, sCurrentCategory, oMap, iLineIndex, aFunctions, hBlocks>>
    /\ UNCHANGED <<blockVars, otherVars>>

\* Find the alphabetical list section; the early return for a negative
\* start is kept as in the source.
FindStart ==
    /\ pc = "findStart"
    /\ LET iAlphaStart == findAlphabeticalListStart(aLines)
       IN  IF iAlphaStart < 0
           THEN pc' = "done" /\ UNCHANGED iLineIndex
           ELSE pc' = "scan" /\ iLineIndex' = iAlphaStart
    /\ UNCHANGED <<aLines, i, sCurrentCategory, oMap, aFunctions, hBlocks>>
    /\ UNCHANGED <<blockVars, otherVars>>

\* One iteration of the while loop of parseFunctionReference.  A read of
\* a line that is undefined throws at sLine.match.
ScanIter ==
    /\ pc = "scan"
    /\ iLineIndex < LineCount(aLines)
    /\ \E oResult \in {IF LineAt(aLines, iLineIndex) = Undefined
                         THEN Null
                         ELSE extractFunctionBlock(aLines, iLineIndex,
                                                   LineCount(aLines), oMap)} :
       LET sLine == LineAt(aLines, iLineIndex)
       IN  IF sLine = Undefined
           THEN /\ pc' = "threw"
                /\ UNCHANGED <<iLineIndex, aFunctions, hBlocks>>
           ELSE IF matchFunctionHeading(sLine) # Null
           THEN /\ pc' = pc
                /\ iLineIndex' = oResult.iNextIndex
                /\ aFunctions' = IF oResult.oFunc # Null
                                 THEN Append(aFunctions, oResult.oFunc)
                                 ELSE aFunctions
                /\ hBlocks' = IF oResult.oFunc # Null
                              THEN Append(hBlocks, [iStartIndex |-> iLineIndex,
                                                    iNextIndex |-> oResult.iNextIndex])
                              ELSE hBlocks
           ELSE /\ pc' = pc
                /\ iLineIndex' = iLineIndex + 1
                /\ UNCHANGED <<aFunctions, hBlocks>>
    /\ UNCHANGED <<aLines, i, sCurrentCategory, oMap>>
    /\ UNCHANGED <<blockVars, otherVars>>

\* The while loop ends; aFunctions is returned.
ScanReturn ==
    /\ pc = "scan"
    /\ iLineIndex >= LineCount(aLines)
    /\ pc' = "done"
    /\ UNCHANGED <<aLines, i, sCurrentCategory, oMap, iLineIndex, aFunctions, hBlocks>>
    /\ UNCHANGED <<blockVars, otherVars>>

Next ==
    \/ BuildCategoryMapIter
    \/ BuildCategoryMapReturn
    \/ FindStart
    \/ ScanIter
    \/ ScanReturn

\* A whole parse of one document.
Spec == Init /\ [][Next]_vars

\* ------------------------------------------------- documents of headings
\* Longest document (in lines) of headings.
MaxHeadingLines == 3

L_AddDeprecated ==                                           \* "### add (deprecated)"
    <<"#","#","#"," ","a","d","d"," ","(","d","e","p","r","e","c","a","t","e","d",")">>
L_SubDeprecatedUpper ==                                      \* "### sub (DEPRECATED)"
    <<"#","#","#"," ","s","u","b"," ","(","D","E","P","R","E","C","A","T","E","D",")">>
L_AddNote ==                                                 \* "### add (deprecated) note"
    <<"#","#","#"," ","a","d","d"," ","(","d","e","p","r","e","c","a","t","e","d",")",
      " ","n","o","t","e">>

\* the lines the documents of headings are built from
HeadingLines ==
    {L_Add, L_AddDeprecated, L_SubDeprecatedUpper, L_AddNote, L_SubDeprecated, L_Marker}

HeadingsInit ==
    /\ aLines \in SeqsUpTo(HeadingLines, MaxHeadingLines)
    /\ ParseStart
    /\ BlockIdle
    /\ OtherIdle

\* A whole parse of one document of headings.
SpecHeadings == HeadingsInit /\ [][Next]_vars

\* ------------------------------------------- the category pass by itself
\* Longest document (in lines) the category pass is run on by itself.
MaxMapLines == 4

CategoryMapInit ==
    /\ aLines \in SeqsUpTo(CategoryLines, MaxMapLines)
    /\ ParseStart
    /\ BlockIdle
    /\ OtherIdle

CategoryMapNext ==
    \/ BuildCategoryMapIter
    \/ BuildCategoryMapReturn

\* buildCategoryMap on documents of headings, rows and marker lines.
SpecCategoryMap == CategoryMapInit /\ [][CategoryMapNext]_vars

\* ------------------------------------ extractDescription run by itself
\* Longest block (in lines) extractDescription is run on by itself.
MaxDescLines == 4

L_Important ==                                               \* "> [!IMPORTANT]"
    <<">"," ","[","!","I","M","P","O","R","T","A","N","T","]">>
L_Quote == <<">"," ","q","u","o","t","e","d">>               \* "> quoted"
L_Text == <<" ","A","d","d","s","."," ">>                    \* " Adds. "

\* the lines the blocks of a description are built from
DescLines == {L_Blank, S_Note, L_Important, L_Quote, L_Text, S_AName}

DescInit ==
    /\ ParseIdle
    /\ OtherIdle
    /\ aBlock \in SeqsUpTo(DescLines, MaxDescLines)
    /\ pcBlock = "extractDescription"
    /\ stDesc = DescStart
    /\ sDescription = Undefined
    /\ stParam = ParamStart

\* One iteration of the for loop of extractDescription.
ExtractDescriptionIter ==
    /\ pcBlock = "extractDescription"
    /\ ~DescLoopOver(aBlock, stDesc)
    /\ stDesc' = DescIter(aBlock, stDesc)
    /\ UNCHANGED <<aBlock, pcBlock, sDescription, stParam>>
    /\ UNCHANGED <<parseVars, otherVars>>

\* The for loop has ended: return cleanMarkdown(aDescLines.join(" ").trim())
ExtractDescriptionReturn ==
    /\ pcBlock = "extractDescription"
    /\ DescLoopOver(aBlock, stDesc)
    /\ sDescription' = DescResult(stDesc.aDescLines)
    /\ pcBlock' = "returned"
    /\ UNCHANGED <<aBlock, stDesc, stParam>>
    /\ UNCHANGED <<parseVars, otherVars>>

DescNext ==
    \/ ExtractDescriptionIter
    \/ ExtractDescriptionReturn

\* extractDescription on blocks of notes, quoted lines, text and anchors.
SpecDesc == DescInit /\ [][DescNext]_vars

\* ------------------------------------- extractParameters run by itself
\* Longest block (in lines) extractParameters is run on by itself.
MaxParamLines == 4

L_RowTwo ==                                     \* "| <*a*>, <*b*> | Yes | int | *x* |"
    <<"|"," ","<","*","a","*",">",","," ","<","*","b","*",">"," ","|"," ","Y","e","s"," ",
      "|"," ","i","n","t"," ","|"," ","*","x","*"," ","|">>
L_RowVariadic ==                                \* "| <*a*>, ... | No | int | y |"
    <<"|"," ","<","*","a","*",">",","," ",".",".","."," ","|"," ","N","o"," ",
      "|"," ","i","n","t"," ","|"," ","y"," ","|">>
L_RowShort ==                                   \* "| <*c*> | Yes | int |"
    <<"|"," ","<","*","c","*",">"," ","|"," ","Y","e","s"," ","|"," ","i","n","t"," ","|">>

\* the lines the blocks of a parameter table are built from
ParamLines == {S_ParamHeader, S_Separator, L_RowTwo, L_RowVariadic, L_RowShort, L_Blank}

ParamInit ==
    /\ ParseIdle
    /\ OtherIdle
    /\ aBlock \in SeqsUpTo(ParamLines, MaxParamLines)
    /\ pcBlock = "extractParameters"
    /\ stDesc = DescStart
    /\ sDescription = Undefined
    /\ stParam = ParamStart

\* One iteration of the for loop of extractParameters.
ExtractParametersIter ==
    /\ pcBlock = "extractParameters"
    /\ ~ParamLoopOver(aBlock, stParam)
    /\ stParam' = ParamIter(aBlock, stParam)
    /\ UNCHANGED <<aBlock, pcBlock, stDesc, sDescription>>
    /\ UNCHANGED <<parseVars, otherVars>>

\* The for loop has ended: return aParams
ExtractParametersReturn ==
    /\ pcBlock = "extractParameters"
    /\ ParamLoopOver(aBlock, stParam)
    /\ pcBlock' = "returned"
    /\ UNCHANGED <<aBlock, stDesc, sDescription, stParam>>
    /\ UNCHANGED <<parseVars, otherVars>>

ParamNext ==
    \/ ExtractParametersIter
    \/ ExtractParametersReturn

\* extractParameters on blocks of table headers, separators and rows.
SpecParams == ParamInit /\ [][ParamNext]_vars

\* ------------------------------------- extractReturnInfo run by itself
\* Longest block (in lines) extractReturnInfo is run on by itself.
MaxReturnLines == 4

L_ReturnRow ==                                  \* "| <*r*> | int | *sum* |"
    <<"|"," ","<","*","r","*",">"," ","|"," ","i","n","t"," ","|"," ","*","s","u","m","*"," ","|">>
L_ReturnShort == <<"|"," ","r"," ","|"," ","i","n","t"," ","|">>   \* "| r | int |"

\* the lines the blocks of a return-value table are built from
ReturnLines ==
    {S_ReturnValueLc, S_ReturnValueUc, S_Separator, L_ReturnRow, L_ReturnShort, L_Text}

\* the variables extractReturnInfo leaves alone
exceptReturn ==
    <<parseVars, aBlock, stDesc, sDescription, stParam, exampleVars, restVars>>

ReturnInit ==
    /\ ParseIdle
    /\ aBlock \in SeqsUpTo(ReturnLines, MaxReturnLines)
    /\ pcBlock = "extractReturnInfo"
    /\ stDesc = DescStart
    /\ sDescription = Undefined
    /\ stParam = ParamStart
    /\ oReturnInfo = Null
    /\ stExample = ExampleStart
    /\ RestIdle

\* extractReturnInfo is run on the block and returns.
ExtractReturnInfo ==
    /\ pcBlock = "extractReturnInfo"
    /\ oReturnInfo' = extractReturnInfo(aBlock)
    /\ pcBlock' = "returned"
    /\ UNCHANGED exceptReturn

ReturnNext == ExtractReturnInfo

\* extractReturnInfo on blocks of headers, separators, rows and text.
SpecReturn == ReturnInit /\ [][ReturnNext]_vars

\* --------------------------------------- extractExamples run by itself
\* Longest block (in lines) extractExamples is run on by itself.
MaxExampleLines == 7

L_ExampleHeader == <<"*","E","x","a","m","p","l","e","*">>   \* "*Example*"
L_Code == <<" ","a","d","d","(","1",")">>                    \* " add(1)"

\* the lines the blocks of examples are built from
ExampleLines == {L_ExampleHeader, S_Fence, L_Code}

\* the variables extractExamples leaves alone
exceptExamples ==
    <<parseVars, aBlock, stDesc, sDescription, stParam, returnVars, restVars>>

ExampleInit ==
    /\ ParseIdle
    /\ aBlock \in SeqsUpTo(ExampleLines, MaxExampleLines)
    /\ pcBlock = "extractExamples"
    /\ stDesc = DescStart
    /\ sDescription = Undefined
    /\ stParam = ParamStart
    /\ oReturnInfo = Null
    /\ stExample = ExampleStart
    /\ RestIdle

\* One iteration of the for loop of extractExamples.
ExtractExamplesIter ==
    /\ pcBlock = "extractExamples"
    /\ stExample.i < Len(aBlock)
    /\ stExample' = ExampleIter(aBlock, stExample)
    /\ UNCHANGED pcBlock
    /\ UNCHANGED exceptExamples

\* The for loop has ended: return aExamples
ExtractExamplesReturn ==
    /\ pcBlock = "extractExamples"
    /\ stExample.i >= Len(aBlock)
    /\ pcBlock' = "returned"
    /\ UNCHANGED stExample
    /\ UNCHANGED exceptExamples

ExampleNext ==
    \/ ExtractExamplesIter
    \/ ExtractExamplesReturn

\* extractExamples on blocks of example headers, fences and code lines.
SpecExamples == ExampleInit /\ [][ExampleNext]_vars

\* ------------------------------------------------ one parse after another
\* Longest document (in lines) of the parses run one after another.
MaxRepeatLines == 2

\* Number of parses run one after another.
MaxParses == 3

\* the lines the documents parsed one after another are built from
RepeatLines == {L_MathFunctions, L_RowAdd, L_Add}

\* a map that is the one of the call before
KeptMap(oPrevious) == oPrevious

\* const oMap = {}: every call of buildCategoryMap makes its own map
FreshMap(oPrevious) == <<>>

\* the variables the caller of parseFunctionReference leaves alone
exceptRepeat == <<blockVars, returnVars, exampleVars, extensionVars>>

RepeatInit ==
    /\ aLines \in SeqsUpTo(RepeatLines, MaxRepeatLines)
    /\ ParseStart
    /\ BlockIdle
    /\ OtherIdle

\* parseFunctionReference has returned aFunctions; the caller calls it
\* again, on any document.  The locals of the call are made anew: aLines,
\* aFunctions, oMap, sCurrentCategory, i, iLineIndex.  The parse that
\* returned is kept for the comparison, or the one kept before stays.
ParseAgain ==
    /\ pc = "done"
    /\ iParses < MaxParses
    /\ iParses' = iParses + 1
    /\ \/ hEarlier' = [aLines |-> aLines, aFunctions |-> aFunctions]
       \/ hEarlier # Null /\ UNCHANGED hEarlier
    /\ aLines' \in SeqsUpTo(RepeatLines, MaxRepeatLines)
    /\ pc' = "buildCategoryMap"
    /\ i' = 0
    /\ sCurrentCategory' = ""
    /\ oMap' = FreshMap(oMap)
    /\ iLineIndex' = 0
    /\ aFunctions' = <<>>
    /\ hBlocks' = <<>>
    /\ UNCHANGED exceptRepeat

RepeatNext ==
    \/ Next
    \/ ParseAgain

\* Parses of any documents, one after another in one process.
SpecRepeat == RepeatInit /\ [][RepeatNext]_vars

\* ------------------------------- a parse with the description scan stepped
\* Longest document (in lines) of the parse whose description scans are
\* followed iteration by iteration.
MaxStepLines == 3

L_QuoteShort == <<">","q">>                                  \* ">q"
L_Word == <<"x">>                                            \* "x"

\* the lines the documents of that parse are built from
StepLines == {L_Add, L_Base64, S_Note, L_QuoteShort, L_Blank, L_Word}

StepsInit ==
    /\ aLines \in SeqsUpTo(StepLines, MaxStepLines)
    /\ ParseStart
    /\ BlockIdle
    /\ OtherIdle

\* the while loop of parseFunctionReference stands on a heading that
\* extractFunctionBlock does not turn down
AtBlockHeading ==
    /\ pc = "scan"
    /\ iLineIndex < LineCount(aLines)
    /\ LET oHeading == matchFunctionHeading(LineAt(aLines, iLineIndex))
       IN  oHeading # Null /\ ~InSeq(oHeading.sName, aSkipNames)

\* An iteration of the while loop on a line that is no heading, or on a
\* heading extractFunctionBlock turns down.
ScanPlain ==
    /\ ~AtBlockHeading
    /\ ScanIter

\* extractFunctionBlock on a heading it accepts: the end of the block is
\* found, the block is sliced and extractDescription is entered.
ScanEnterBlock ==
    /\ AtBlockHeading
    /\ pcBlock = "idle"
    /\ pc' = "extractFunctionBlock"
    /\ aBlock' = slice(aLines, iLineIndex + 1,
                       BlockEndFrom(aLines, iLineIndex, LineCount(aLines), iLineIndex + 1))
    /\ pcBlock' = "extractDescription"
    /\ stDesc' = DescStart
    /\ sDescription' = Undefined
    /\ UNCHANGED <<aLines, i, sCurrentCategory, oMap, iLineIndex, aFunctions, hBlocks>>
    /\ UNCHANGED <<stParam, otherVars>>

\* extractDescription has returned: the other extractors are run on the
\* block, the entry is pushed and the while loop goes on at iEndIndex.
ScanLeaveBlock ==
    /\ pc = "extractFunctionBlock"
    /\ pcBlock = "returned"
    /\ \E oHeading \in {matchFunctionHeading(LineAt(aLines, iLineIndex))},
          oReturn \in {extractReturnInfo(aBlock)},
          iEndIndex \in {BlockEndFrom(aLines, iLineIndex, LineCount(aLines), iLineIndex + 1)} :
           /\ aFunctions' =
                  Append(aFunctions,
                         [sName |-> oHeading.sName,
                          sDescription |-> sDescription,
                          sSyntax |-> extractSyntax(aBlock),
                          aParameters |-> extractParameters(aBlock),
                          sReturnType |-> oReturn.sType,
                          sReturnDescription |-> oReturn.sDescription,
                          sCategory |-> CategoryOf(oMap, oHeading.sName),
                          aExamples |-> extractExamples(aBlock),
                          bDeprecated |-> bDeprecated(oHeading)])
           /\ iLineIndex' = iEndIndex
           /\ hBlocks' = Append(hBlocks, [iStartIndex |-> iLineIndex,
                                          iNextIndex |-> iEndIndex])
    /\ pc' = "scan"
    /\ aBlock' = <<>>
    /\ pcBlock' = "idle"
    /\ stDesc' = DescStart
    /\ sDescription' = Undefined
    /\ UNCHANGED <<aLines, i, sCurrentCategory, oMap>>
    /\ UNCHANGED <<stParam, otherVars>>

StepsNext ==
    \/ BuildCategoryMapIter
    \/ BuildCategoryMapReturn
    \/ FindStart
    \/ ScanPlain
    \/ ScanEnterBlock
    \/ ExtractDescriptionIter
    \/ ExtractDescriptionReturn
    \/ ScanLeaveBlock
    \/ ScanReturn

\* A whole parse, the description scans followed iteration by iteration.
\* The parse is synchronous code run to completion on one thread: a step
\* that can be taken is taken.
SpecSteps == StepsInit /\ [][StepsNext]_vars /\ WF_vars(StepsNext)

\* ------------------------------------------------------- the token cache
\* Number of sign-ins that are started.
MaxSignIns == 2

\* Longest time (in minutes) that passes in one step.
StepMinutes == 30

\* Time (in minutes) after which no more time passes.
MaxMinutes == 90

\* 55 * 60 * 1000 ms: the delay of the timer that deletes the token
iCacheMinutes == 55

\* 120000 ms: the delay of the timer that gives the sign-in up
iSignInMinutes == 2

\* the environment URLs
EnvUrls == {"https://a", "https://b"}

\* the smaller of two numbers
Min(a, b) == IF a <= b THEN a ELSE b

\* the times at which a timer is due
DueTimes == {t.iDue : t \in aTimers} \cup (IF oSignIn = Null THEN {} ELSE {oSignIn.iDue})

\* a time that is never reached
Never == MaxMinutes + iCacheMinutes + 1

\* the time the next timer is due
NextDue == IF DueTimes = {} THEN Never ELSE CHOOSE t \in DueTimes : \A u \in DueTimes : t <= u

\* delete o[k]
Delete(o, k) == [x \in DOMAIN o \ {k} |-> o[x]]

\* the variables the token cache leaves alone
exceptToken ==
    <<parseVars, blockVars, returnVars, exampleVars, repeatVars, envListVars, updateVars,
      intellisenseVars, openVars, signInVars, moreVars>>

TokenInit ==
    /\ ParseIdle
    /\ BlockIdle
    /\ OtherIdle

\* an error handler that closes the server of the pending sign-in
ErrorClosesPending(oPending) == Null

\* oServer.on("error", ...) of a call whose server cannot listen: its own
\* timeout is cleared and its promise rejected; the sign-in that is
\* pending keeps its server and its timeout
AfterPortError(oPending) == oPending

\* a timeout that never fires
NeverTimedOut(oPending, iTime) == FALSE

\* setTimeout(..., 120000): the timeout of the pending sign-in is due
IsTimedOut(oPending, iTime) == oPending.iDue <= iTime

\* getToken(sEnvUrl) with a token in the cache: the promise is resolved
\* with the cached token.
GetTokenCached ==
    \E sEnvUrl \in EnvUrls :
        /\ sEnvUrl \in DOMAIN oTokenCache
        /\ oGot' = [kind |-> "token", sEnvUrl |-> sEnvUrl, sToken |-> oTokenCache[sEnvUrl]]
        /\ UNCHANGED <<oTokenCache, aTimers, oSignIn, iNow, iTokens, hSignIn>>
        /\ UNCHANGED exceptToken

\* getToken(sEnvUrl) with no token in the cache: the timeout is set, the
\* local server listens and the browser is opened.
GetTokenSignIn ==
    \E sEnvUrl \in EnvUrls :
        /\ sEnvUrl \notin DOMAIN oTokenCache
        /\ oSignIn = Null
        /\ iTokens < MaxSignIns
        /\ iNow + iSignInMinutes <= MaxMinutes
        /\ oSignIn' = [sEnvUrl |-> sEnvUrl, iDue |-> iNow + iSignInMinutes]
        /\ oGot' = [kind |-> "pending", sEnvUrl |-> sEnvUrl]
        /\ UNCHANGED <<oTokenCache, aTimers, iNow, iTokens, hSignIn>>
        /\ UNCHANGED exceptToken

\* getToken(sEnvUrl) with no token in the cache while the local server of
\* another call listens: the port is in use and the promise is rejected.
GetTokenPortInUse ==
    \E sEnvUrl \in EnvUrls :
        /\ sEnvUrl \notin DOMAIN oTokenCache
        /\ oSignIn # Null
        /\ oGot' = [kind |-> "rejected", sEnvUrl |-> sEnvUrl]
        /\ oSignIn' = AfterPortError(oSignIn)
        /\ UNCHANGED <<oTokenCache, aTimers, iNow, iTokens, hSignIn>>
        /\ UNCHANGED exceptToken

\* The browser page calls /callback?token=...: the timeout is cleared, the
\* server is closed, the token is cached, the timer that deletes it is set
\* and the promise is resolved.
SignInCallback ==
    /\ oSignIn # Null
    /\ iTokens' = iTokens + 1
    /\ oTokenCache' = (oSignIn.sEnvUrl :> iTokens') @@ oTokenCache
    /\ aTimers' = aTimers \cup {[sEnvUrl |-> oSignIn.sEnvUrl, iDue |-> iNow + iCacheMinutes]}
    /\ oSignIn' = Null
    /\ oGot' = [kind |-> "token", sEnvUrl |-> oSignIn.sEnvUrl, sToken |-> iTokens']
    /\ hSignIn' = (oSignIn.sEnvUrl :> [sToken |-> iTokens', iAt |-> iNow]) @@ hSignIn
    /\ UNCHANGED iNow
    /\ UNCHANGED exceptToken

\* The timeout of the sign-in fires: the server is closed and the promise
\* is rejected.
SignInTimeout ==
    /\ oSignIn # Null
    /\ IsTimedOut(oSignIn, iNow)
    /\ oGot' = [kind |-> "rejected", sEnvUrl |-> oSignIn.sEnvUrl]
    /\ oSignIn' = Null
    /\ UNCHANGED <<oTokenCache, aTimers, iNow, iTokens, hSignIn>>
    /\ UNCHANGED exceptToken

\* A timer set at a sign-in fires: delete oTokenCache[sEnvUrl]
CacheTimerFires ==
    \E oTimer \in aTimers :
        /\ oTimer.iDue <= iNow
        /\ oTokenCache' = Delete(oTokenCache, oTimer.sEnvUrl)
        /\ aTimers' = aTimers \ {oTimer}
        /\ UNCHANGED <<oSignIn, iNow, iTokens, oGot, hSignIn>>
        /\ UNCHANGED exceptToken

\* clearToken(sEnvUrl): the token of the environment is deleted, or the
\* whole cache when no environment is given.  No timer is cleared.  (A
\* call that deletes nothing is left out: it changes no variable.)
ClearToken ==
    \E sEnvUrl \in EnvUrls \cup {""} :
        /\ oTokenCache' = IF sEnvUrl # "" THEN Delete(oTokenCache, sEnvUrl) ELSE <<>>
        /\ hSignIn' = IF sEnvUrl # "" THEN Delete(hSignIn, sEnvUrl) ELSE <<>>
        /\ <<oTokenCache', hSignIn'>> # <<oTokenCache, hSignIn>>
        /\ UNCHANGED <<aTimers, oSignIn, iNow, iTokens, oGot>>
        /\ UNCHANGED exceptToken

\* Time passes, up to the time the next timer is due; a timer that is due
\* fires before more time passes.
TimePasses ==
    /\ iNow < MaxMinutes
    /\ NextDue > iNow
    /\ iNow' = Min(Min(iNow + StepMinutes, NextDue), MaxMinutes)
    /\ UNCHANGED <<oTokenCache, aTimers, oSignIn, iTokens, oGot, hSignIn>>
    /\ UNCHANGED exceptToken

TokenNext ==
    \/ GetTokenCached
    \/ GetTokenSignIn
    \/ GetTokenPortInUse
    \/ SignInCallback
    \/ SignInTimeout
    \/ CacheTimerFires
    \/ ClearToken
    \/ TimePasses

\* Calls of getToken and clearToken, sign-ins and timers, in any order.
SpecToken == TokenInit /\ [][TokenNext]_vars

\* The same with the clock of the process and its timers: time passes,
\* and a timer that is due (the timeout of a sign-in, the deletion of a
\* cached token) fires.  Nothing obliges the browser to call back.
SpecTokenFair ==
    /\ TokenInit
    /\ [][TokenNext]_vars
    /\ WF_vars(TimePasses)
    /\ WF_vars(SignInTimeout)
    /\ WF_vars(CacheTimerFires)

\* ------------------------------------------- the saved environment lists
\* Number of calls of addEnvToTenantList with a tenant and a URL, per
\* tenant, between two clears.
MaxAdds == 3

\* the tenants; "" stands for every falsy argument
Tenants == {"", "contoso", "fabrikam"}

\* the environment URLs that are saved; "" stands for every falsy argument
SavedUrls == {"", "https://env1", "https://env2", "https://env3"}

\* "flowEnvList_" + sTenant
EnvListKey(sTenant) == <<"flowEnvList_", sTenant>>

\* oContext.globalState.get(sKey, vDefault)
GlobalStateGet(oState, sKey, vDefault) ==
    IF sKey \in DOMAIN oState THEN oState[sKey] ELSE vDefault

\* Get saved environment list for a tenant
getEnvListForTenant(oState, sTenant) ==
    IF sTenant = "" THEN <<>>
    ELSE GlobalStateGet(oState, EnvListKey(sTenant), <<>>)

\* a test that looks at the last saved URL only
IsLastSaved(aList, sEnvUrl) == Len(aList) > 0 /\ aList[Len(aList)] = sEnvUrl

\* the for loop of addEnvToTenantList: aList[i] === sEnvUrl for some i
IsSaved(aList, sEnvUrl) == \E k \in 1..Len(aList) : aList[k] = sEnvUrl

\* a clear that keeps the list
KeptList(aList) == aList

\* the list clearEnvListForTenant stores: []
ClearedList(aList) == <<>>

\* the log of a tenant
AddsOf(sTenant) == IF sTenant \in DOMAIN hAdds THEN hAdds[sTenant] ELSE <<>>

\* the variables the saved lists leave alone
exceptEnvList ==
    <<parseVars, blockVars, returnVars, exampleVars, repeatVars, tokenVars, updateVars,
      intellisenseVars, openVars, signInVars, moreVars>>

EnvListInit ==
    /\ ParseIdle
    /\ BlockIdle
    /\ OtherIdle

\* getEnvListForTenant(oContext, sTenant)
GetEnvListForTenant ==
    \E sTenant \in Tenants :
        /\ oLastCall' = [op |-> "get", sTenant |-> sTenant, sEnvUrl |-> "",
                         aBefore |-> getEnvListForTenant(oGlobalState, sTenant),
                         vReturned |-> getEnvListForTenant(oGlobalState, sTenant)]
        /\ UNCHANGED <<oGlobalState, hAdds, hEverAdded>>
        /\ UNCHANGED exceptEnvList

\* addEnvToTenantList(oContext, sTenant, sEnvUrl)
AddEnvToTenantList ==
    \E sTenant \in Tenants, sEnvUrl \in SavedUrls :
        LET aList == getEnvListForTenant(oGlobalState, sTenant)
        IN  /\ Len(AddsOf(sTenant)) < MaxAdds
            /\ oLastCall' = [op |-> "add", sTenant |-> sTenant, sEnvUrl |-> sEnvUrl,
                             aBefore |-> aList, vReturned |-> Undefined]
            /\ IF sTenant = "" \/ sEnvUrl = ""
               THEN UNCHANGED <<oGlobalState, hAdds, hEverAdded>>
               ELSE /\ hAdds' = (sTenant :> Append(AddsOf(sTenant), sEnvUrl)) @@ hAdds
                    /\ hEverAdded' = hEverAdded \cup {sTenant}
                    /\ IF IsSaved(aList, sEnvUrl)
                       THEN UNCHANGED oGlobalState
                       ELSE oGlobalState' =
                                (EnvListKey(sTenant) :> Append(aList, sEnvUrl)) @@ oGlobalState
            /\ UNCHANGED exceptEnvList

\* clearEnvListForTenant(oContext, sTenant)
ClearEnvListForTenant ==
    \E sTenant \in Tenants :
        LET aList == getEnvListForTenant(oGlobalState, sTenant)
        IN  /\ oLastCall' = [op |-> "clear", sTenant |-> sTenant, sEnvUrl |-> "",
                             aBefore |-> aList, vReturned |-> Undefined]
            /\ IF sTenant = ""
               THEN UNCHANGED <<oGlobalState, hAdds>>
               ELSE /\ oGlobalState' =
                           (EnvListKey(sTenant) :> ClearedList(aList)) @@ oGlobalState
                    /\ hAdds' = (sTenant :> <<>>) @@ hAdds
            /\ UNCHANGED hEverAdded
            /\ UNCHANGED exceptEnvList

EnvListNext ==
    \/ GetEnvListForTenant
    \/ AddEnvToTenantList
    \/ ClearEnvListForTenant

\* Calls of the three functions on the saved lists, in any order.
SpecEnvList == EnvListInit /\ [][EnvListNext]_vars

\* ------------------------------------------- the command Update Flow
\* {36}: the length of the flow ID in the file name
iFlowIdLength == 36

\* 204: the status of an update that succeeded
iNoContent == 204

S_ClientDataJson ==                                          \* ".clientdata.json"
    <<".","c","l","i","e","n","t","d","a","t","a",".","j","s","o","n">>

\* [0-9a-fA-F\-]
IsHexOrDash(c) ==
    \/ c \in DigitChars
    \/ c \in {"a", "b", "c", "d", "e", "f", "A", "B", "C", "D", "E", "F", "-"}

\* Extract the flow ID from a clientdata filename: the match of
\* ([0-9a-fA-F\-]{36})\.clientdata\.json$
extractFlowIdFromFileName(sName) ==
    LET iSuffix == Len(sName) - Len(S_ClientDataJson)
    IN  IF /\ iSuffix >= iFlowIdLength
           /\ SubSeq(sName, iSuffix + 1, Len(sName)) = S_ClientDataJson
           /\ \A k \in (iSuffix - iFlowIdLength + 1)..iSuffix : IsHexOrDash(sName[k])
        THEN SubSeq(sName, iSuffix - iFlowIdLength + 1, iSuffix)
        ELSE NullString

\* two flow IDs
S_Guid == [k \in 1..iFlowIdLength |-> IF k \in {9, 14, 19, 24} THEN "-" ELSE "a"]
S_GuidUpper == [k \in 1..iFlowIdLength |-> IF k \in {9, 14, 19, 24} THEN "-" ELSE "F"]

\* the file names of the active editor
F_Flow == <<"f", ".">> \o S_Guid \o S_ClientDataJson
F_FlowUpper == <<"m", "y", ".", "f", ".">> \o S_GuidUpper \o S_ClientDataJson
F_Short == <<"f", ".">> \o SubSeq(S_Guid, 2, iFlowIdLength) \o S_ClientDataJson
F_NoId == <<"f">> \o S_ClientDataJson
F_Backup == F_Flow \o <<".", "b", "a", "k">>
F_NotHex == <<"f", ".", "g">> \o SubSeq(S_Guid, 2, iFlowIdLength) \o S_ClientDataJson
FileNames == {F_Flow, F_FlowUpper, F_Short, F_NoId, F_Backup, F_NotHex}

\* the statuses Dataverse answers the PATCH with
Statuses == {iNoContent, 400, 412}

\* the variables the command leaves alone
exceptUpdate ==
    <<parseVars, blockVars, returnVars, exampleVars, repeatVars, tokenVars, envListVars,
      intellisenseVars, openVars, signInVars, moreVars>>

\* oContext.workspaceState.update("flowEnvUrl_" + sId, sUrl) and
\* oContext.workspaceState.update("flowTenantId_" + sId, sTenant)
StoredFor(oState, sId, sUrl, sTenant) ==
    (<<"flowEnvUrl_", sId>> :> sUrl) @@ (<<"flowTenantId_", sId>> :> sTenant) @@ oState

\* The active editor shows one of the files, or there is none; the
\* workspace state holds an environment and a tenant for a flow, or nothing.
UpdateInit ==
    /\ ParseIdle
    /\ BlockIdle
    /\ oReturnInfo = Null
    /\ stExample = ExampleStart
    /\ RepeatIdle
    /\ TokenIdle
    /\ EnvListIdle
    /\ UpdateIdle
    /\ IntellisenseIdle
    /\ pcOpen = "idle"
    /\ oOpenArgs = Null
    /\ hFiles = <<>>
    /\ iOpens = 0
    /\ SignInIdle
    /\ MoreIdle
    /\ sEditorFile \in FileNames \cup {NullString}
    /\ oWorkspaceState \in
          {<<>>} \cup {StoredFor(<<>>, sId, sUrl, "contoso") :
                          sId \in {S_Guid, S_GuidUpper}, sUrl \in EnvUrls}

\* promptForEnvUrl(oContext) and promptForTenantId(oContext) begin with
\* oContext.globalState.get: called without the argument they throw a
\* TypeError before any prompt is shown
PromptThrows(bContextPassed) == ~bContextPassed

\* The command is run: no editor, no flow ID in the file name, or the
\* confirmation is asked for (environment and tenant are stored for the
\* flow) or promptForEnvUrl() is called, without an argument.
UpdateFlowCommand ==
    /\ pcUpdate = "idle"
    /\ pcOpen \in {"idle", "done", "threw"}
    /\ IF sEditorFile = NullString
       THEN /\ aShown' = Append(aShown, "error: no active editor")
            /\ pcUpdate' = "done"
            /\ UNCHANGED <<sFileName, sFlowId, oTarget, hSteps>>
       ELSE /\ sFileName' = sEditorFile
            /\ sFlowId' = extractFlowIdFromFileName(sEditorFile)
            /\ IF sFlowId' = NullString
               THEN /\ aShown' = Append(aShown, "error: no flow ID")
                    /\ pcUpdate' = "done"
                    /\ UNCHANGED <<oTarget, hSteps>>
               ELSE LET sStoredEnvUrl ==
                            GlobalStateGet(oWorkspaceState, <<"flowEnvUrl_", sFlowId'>>, "")
                        sStoredTenantId ==
                            GlobalStateGet(oWorkspaceState, <<"flowTenantId_", sFlowId'>>, "")
                    IN  /\ hSteps' = Append(hSteps, "flow ID extracted")
                        /\ UNCHANGED aShown
                        /\ IF sStoredEnvUrl # "" /\ sStoredTenantId # ""
                           THEN /\ oTarget' = [sEnvUrl |-> sStoredEnvUrl,
                                               sTenantId |-> sStoredTenantId]
                                /\ pcUpdate' = "confirm"
                           ELSE /\ oTarget' = Null
                                /\ pcUpdate' = IF PromptThrows(FALSE)
                                               THEN "threw"
                                               ELSE "promptForEnvUrl"
    /\ UNCHANGED aRequests
    /\ UNCHANGED exceptUpdate

\* The confirmation dialog is settled: with "Update" the document is
\* saved, with anything else the command ends.
ConfirmSettled ==
    /\ pcUpdate = "confirm"
    /\ \E sChoice \in {"Update", "undefined"} :
          IF sChoice # "Update"
          THEN /\ pcUpdate' = "done"
               /\ hSteps' = Append(hSteps, "declined")
          ELSE /\ pcUpdate' = "save"
               /\ hSteps' = Append(hSteps, "chose Update")
    /\ UNCHANGED <<sFileName, sFlowId, oTarget, aShown, aRequests>>
    /\ UNCHANGED exceptUpdate

\* oEditor.document.save() is settled.  It resolves to true when the file
\* was saved and to false when the save failed, or it is rejected; the
\* callback takes no argument: resolved either way, the progress is shown
\* and getToken is called.  A rejection is handled nowhere.
SaveSettled ==
    /\ pcUpdate = "save"
    /\ \E vSaved \in {"true", "false", "rejected"} :
          /\ hSteps' = Append(hSteps, CASE vSaved = "true" -> "document saved"
                                         [] vSaved = "false" -> "save failed"
                                         [] OTHER -> "save rejected")
          /\ pcUpdate' = IF vSaved = "rejected" THEN "done" ELSE "getToken"
    /\ UNCHANGED <<sFileName, sFlowId, oTarget, aShown, aRequests>>
    /\ UNCHANGED exceptUpdate

\* getToken is settled.  With a token the file is read and parsed: a
\* file that cannot be read or is no JSON throws; else updateClientData
\* sends the PATCH.  Every error ends in the catch, which shows it.
GetTokenSettled ==
    /\ pcUpdate = "getToken"
    /\ \E vToken \in {"token", "rejected"},
          vContent \in {"JSON", "not JSON", "unreadable"} :
          IF vToken = "rejected"
          THEN /\ aShown' = Append(aShown, "error: Failed to update flow")
               /\ hSteps' = Append(hSteps, "no token")
               /\ pcUpdate' = "done"
               /\ UNCHANGED aRequests
          ELSE IF vContent # "JSON"
          THEN /\ aShown' = Append(aShown, "error: Failed to update flow")
               /\ hSteps' = Append(hSteps, "content not parsed")
               /\ pcUpdate' = "done"
               /\ UNCHANGED aRequests
          ELSE /\ aRequests' = Append(aRequests, [sMethod |-> "PATCH",
                                                  sEnvUrl |-> oTarget.sEnvUrl,
                                                  sFlowId |-> sFlowId])
               /\ hSteps' = hSteps \o <<"content parsed", "PATCH sent">>
               /\ pcUpdate' = "updateClientData"
               /\ UNCHANGED aShown
    /\ UNCHANGED <<sFileName, sFlowId, oTarget>>
    /\ UNCHANGED exceptUpdate

\* The request is settled: status 204 shows the success message, any
\* other status or a request error shows the error.
UpdateClientDataSettled ==
    /\ pcUpdate = "updateClientData"
    /\ \E vStatus \in Statuses \cup {0} :
          aShown' = Append(aShown, IF vStatus = iNoContent
                                   THEN "info: Flow clientdata updated successfully."
                                   ELSE "error: Failed to update flow")
    /\ pcUpdate' = "done"
    /\ UNCHANGED <<sFileName, sFlowId, oTarget, aRequests, hSteps>>
    /\ UNCHANGED exceptUpdate

UpdateNext ==
    \/ UpdateFlowCommand
    \/ ConfirmSettled
    \/ SaveSettled
    \/ GetTokenSettled
    \/ UpdateClientDataSettled

\* One run of the command Update Flow ClientData.
SpecUpdateFlow == UpdateInit /\ [][UpdateNext]_vars

\* ------------------------------------------------ the command Open Flow
\* Number of Open Flow commands run.
MaxOpens == 2

\* "unknown-flow"
S_UnknownFlow == <<"u","n","k","n","o","w","n","-","f","l","o","w">>

\* the names Dataverse gives for a flow; the empty one stands for a flow
\* without a name
N_Plain == <<"f">>
N_Spaced == <<"m","y"," ","f",".","1">>
FlowNames == {N_Plain, N_Spaced, <<>>}

\* the flow IDs the command is given; the empty one is a missing argument
S_NoGuid == <<"a","b","c">>
FlowIds == {S_Guid, S_GuidUpper, S_NoGuid, <<>>}

\* oResult.sName.replace(new RegExp("[^a-zA-Z0-9_\\-]", "g"), "-")
SafeName(sName) ==
    [k \in 1..Len(sName) |->
        IF IsAlnum(sName[k]) \/ sName[k] \in {"_", "-"} THEN sName[k] ELSE "-"]

\* a file name that begins with the flow ID
IdFirstFileName(sSafeName, sId) == sId \o <<".">> \o sSafeName \o S_ClientDataJson

\* sSafeName + "." + sId + ".clientdata.json"
OpenFileName(sSafeName, sId) == sSafeName \o <<".">> \o sId \o S_ClientDataJson

\* the variables the command leaves alone
exceptOpen ==
    <<parseVars, blockVars, returnVars, exampleVars, repeatVars, tokenVars, envListVars,
      intellisenseVars, signInVars, moreVars, pcUpdate, sFileName, sFlowId, oTarget,
      hSteps>>

\* The command is run.  With its three arguments oDoOpen is called.
\* Without one of them promptForEnvUrl() is called, without an argument.
OpenFlowCommand ==
    /\ pcOpen \in {"idle", "done", "threw"}
    /\ pcUpdate = "idle"
    /\ iOpens < MaxOpens
    /\ iOpens' = iOpens + 1
    /\ \E sEnvUrl \in EnvUrls \cup {""}, sId \in FlowIds, sTenantId \in {"", "contoso"} :
          IF sEnvUrl # "" /\ sId # <<>> /\ sTenantId # ""
          THEN /\ oOpenArgs' = [sUrl |-> sEnvUrl, sId |-> sId, sTenant |-> sTenantId]
               /\ pcOpen' = "getToken"
          ELSE /\ oOpenArgs' = Null
               /\ pcOpen' = IF PromptThrows(FALSE) THEN "threw" ELSE "promptForEnvUrl"
    /\ UNCHANGED <<oWorkspaceState, sEditorFile, hFiles, aShown, aRequests>>
    /\ UNCHANGED exceptOpen

\* getToken is settled: with a token getClientData sends the GET, a
\* rejection ends in the catch, which shows it.
OpenGetTokenSettled ==
    /\ pcOpen = "getToken"
    /\ \E vToken \in {"token", "rejected"} :
          IF vToken = "rejected"
          THEN /\ aShown' = Append(aShown, "error: Failed to open flow")
               /\ pcOpen' = "done"
               /\ UNCHANGED aRequests
          ELSE /\ aRequests' = Append(aRequests, [sMethod |-> "GET",
                                                  sEnvUrl |-> oOpenArgs.sUrl,
                                                  sFlowId |-> oOpenArgs.sId])
               /\ pcOpen' = "getClientData"
               /\ UNCHANGED aShown
    /\ UNCHANGED <<oOpenArgs, oWorkspaceState, sEditorFile, hFiles, iOpens>>
    /\ UNCHANGED exceptOpen

\* getClientData is settled.  An error, a status other than 200 or a
\* flow without clientdata ends in the catch; else the file is written,
\* the environment and the tenant are stored for the flow and the
\* document is opened.
GetClientDataSettled ==
    /\ pcOpen = "getClientData"
    /\ \E bResolved \in BOOLEAN, sDataName \in FlowNames :
          LET sName == IF sDataName # <<>> THEN sDataName ELSE S_UnknownFlow
              sOpenFileName == OpenFileName(SafeName(sName), oOpenArgs.sId)
          IN  IF ~bResolved
              THEN /\ aShown' = Append(aShown, "error: Failed to open flow")
                   /\ pcOpen' = "done"
                   /\ UNCHANGED <<oWorkspaceState, hFiles>>
              ELSE /\ hFiles' = (sOpenFileName :> oOpenArgs) @@ hFiles
                   /\ oWorkspaceState' = StoredFor(oWorkspaceState, oOpenArgs.sId,
                                                   oOpenArgs.sUrl, oOpenArgs.sTenant)
                   /\ pcOpen' = "showTextDocument"
                   /\ UNCHANGED aShown
    /\ UNCHANGED <<oOpenArgs, sEditorFile, aRequests, iOpens>>
    /\ UNCHANGED exceptOpen

\* openTextDocument and showTextDocument are settled: the file written
\* last is in the active editor, or the error is shown.
ShowTextDocumentSettled ==
    /\ pcOpen = "showTextDocument"
    /\ \E bShown \in BOOLEAN, sName \in DOMAIN hFiles :
          /\ hFiles[sName] = oOpenArgs
          /\ IF bShown
             THEN sEditorFile' = sName /\ UNCHANGED aShown
             ELSE /\ aShown' = Append(aShown, "error: Failed to open flow")
                  /\ UNCHANGED sEditorFile
    /\ pcOpen' = "done"
    /\ UNCHANGED <<oOpenArgs, oWorkspaceState, hFiles, aRequests, iOpens>>
    /\ UNCHANGED exceptOpen

OpenNext ==
    \/ OpenFlowCommand
    \/ OpenGetTokenSettled
    \/ GetClientDataSettled
    \/ ShowTextDocumentSettled
    \/ UpdateFlowCommand
    \/ ConfirmSettled
    \/ SaveSettled
    \/ GetTokenSettled
    \/ UpdateClientDataSettled

OpenInit ==
    /\ ParseIdle
    /\ BlockIdle
    /\ OtherIdle

\* Open Flow commands, and one Update Flow command after them.
SpecOpenFlow == OpenInit /\ [][OpenNext]_vars

\* --------------------------------------------------- the command Sign In
\* Number of Sign In commands run.
MaxCommands == 3

\* the keys of the stored tenant and the stored environment
S_TenantIdKey == <<"flowTenantId">>
S_EnvUrlKey == <<"flowEnvUrl">>

\* The text typed into a prompt is written as its pieces: blanks or
\* slashes, and the name typed.  The answers to the tenant prompt that
\* validateInput lets through (no empty and no blank text):
TenantAnswers ==
    {<<"contoso">>, <<" ", "contoso", " ">>, <<"fabrikam">>, <<"fabrikam", " ">>}

\* the answers to the environment prompt that validateInput lets through
EnvUrlAnswers == {<<"https://a">>, <<"https://a", "/", "/">>, <<"https://b">>}

\* sValue.replace(new RegExp("[/]+$", ""), "")
RECURSIVE StripSlashes(_)
StripSlashes(sValue) ==
    IF Len(sValue) > 0 /\ sValue[Len(sValue)] = "/"
    THEN StripSlashes(SubSeq(sValue, 1, Len(sValue) - 1))
    ELSE sValue

\* the name in a text of one name
NameOf(sText) == sText[1]

\* the list of a tenant is reset whenever a tenant is stored
AnyAnswerResets(sStoredTenant, sTrim) == sStoredTenant # ""

\* sStoredTenant && sStoredTenant !== sTrim
TenantChanged(sStoredTenant, sTrim) == sStoredTenant # "" /\ sStoredTenant # sTrim

\* the then-callback of promptForTenantId on an answer: the global state
\* after it
AfterTenantAnswer(oState, sTrim) ==
    LET sStoredTenant == GlobalStateGet(oState, S_TenantIdKey, "")
    IN  (S_TenantIdKey :> sTrim)
        @@ (IF TenantChanged(sStoredTenant, sTrim)
            THEN (EnvListKey(sStoredTenant) :> <<>>) @@ oState
            ELSE oState)

\* addEnvToTenantList(oContext, sTenant, sEnvUrl): the global state after it
AfterAddEnv(oState, sTenant, sEnvUrl) ==
    LET aList == getEnvListForTenant(oState, sTenant)
    IN  IF sTenant = "" \/ sEnvUrl = "" \/ IsSaved(aList, sEnvUrl)
        THEN oState
        ELSE (EnvListKey(sTenant) :> Append(aList, sEnvUrl)) @@ oState

\* the variables the command leaves alone
exceptSignIn ==
    <<parseVars, blockVars, returnVars, exampleVars, repeatVars, updateVars,
      intellisenseVars, openVars, moreVars, oLastCall, hAdds, hEverAdded, aTimers, iNow,
      iTokens>>

\* The command is run: promptForTenantId(oContext) shows its input box.
SignInCommand ==
    /\ pcSignIn \in {"idle", "done"}
    /\ iCommands < MaxCommands
    /\ iCommands' = iCommands + 1
    /\ pcSignIn' = "promptForTenantId"
    /\ UNCHANGED <<sSignInTenant, oPrompt, oGlobalState, oTokenCache, oSignIn, oGot, hSignIn>>
    /\ UNCHANGED exceptSignIn

\* The tenant prompt is settled.  Cancelled, the command ends.  Answered,
\* the list of the stored tenant is reset when the answer, trimmed, is
\* another tenant, the answer is stored and promptForEnvUrl(oContext)
\* shows its quick pick or its input box.
SignInTenantSettled ==
    /\ pcSignIn = "promptForTenantId"
    /\ \E sValue \in TenantAnswers \cup {Undefined} :
          /\ oPrompt' = [sStoredTenant |-> GlobalStateGet(oGlobalState, S_TenantIdKey, ""),
                         sValue |-> sValue,
                         oBefore |-> oGlobalState]
          /\ IF sValue = Undefined
             THEN /\ pcSignIn' = "done"
                  /\ UNCHANGED <<sSignInTenant, oGlobalState>>
             ELSE /\ sSignInTenant' = NameOf(trim(sValue))
                  /\ oGlobalState' = AfterTenantAnswer(oGlobalState, sSignInTenant')
                  /\ pcSignIn' = "promptForEnvUrl"
    /\ UNCHANGED <<iCommands, oTokenCache, oSignIn, oGot, hSignIn>>
    /\ UNCHANGED exceptSignIn

\* The environment prompt is settled: cancelled, with a saved environment
\* picked, or with a new URL typed, which is added to the list of the
\* stored tenant.  With an environment the selections are stored, the
\* environment is added to the list of the tenant, its token is cleared
\* and getToken is called: with the local server of another sign-in
\* listening it is rejected, else the sign-in is pending.
SignInEnvUrlSettled ==
    /\ pcSignIn = "promptForEnvUrl"
    /\ pcSignIn' = "done"
    /\ LET sStoredTenant == GlobalStateGet(oGlobalState, S_TenantIdKey, "")
           aSaved == getEnvListForTenant(oGlobalState, sStoredTenant)
       IN  \E vChoice \in {"cancelled", "typed"}
                           \cup (IF Len(aSaved) > 0 THEN {"picked"} ELSE {}),
              sValue \in EnvUrlAnswers, k \in 1..(IF Len(aSaved) > 0 THEN Len(aSaved) ELSE 1) :
              LET sEnvUrl == IF vChoice = "picked" THEN aSaved[k]
                             ELSE NameOf(StripSlashes(sValue))
                  oTyped == IF vChoice = "typed"
                            THEN AfterAddEnv(oGlobalState, sStoredTenant, sEnvUrl)
                            ELSE oGlobalState
              IN  IF vChoice = "cancelled"
                  THEN UNCHANGED <<oGlobalState, oTokenCache, oSignIn, oGot, hSignIn>>
                  ELSE /\ oGlobalState' =
                              AfterAddEnv((S_TenantIdKey :> sSignInTenant)
                                          @@ (S_EnvUrlKey :> sEnvUrl) @@ oTyped,
                                          sSignInTenant, sEnvUrl)
                       /\ oTokenCache' = Delete(oTokenCache, sEnvUrl)
                       /\ hSignIn' = Delete(hSignIn, sEnvUrl)
                       /\ IF oSignIn = Null
                          THEN /\ oSignIn' = [sEnvUrl |-> sEnvUrl,
                                              iDue |-> iNow + iSignInMinutes]
                               /\ oGot' = [kind |-> "pending", sEnvUrl |-> sEnvUrl]
                          ELSE /\ oGot' = [kind |-> "rejected", sEnvUrl |-> sEnvUrl]
                               /\ UNCHANGED oSignIn
    /\ UNCHANGED <<sSignInTenant, oPrompt, iCommands>>
    /\ UNCHANGED exceptSignIn

SignInNext ==
    \/ SignInCommand
    \/ SignInTenantSettled
    \/ SignInEnvUrlSettled
    \/ SignInCallback

SignInInit ==
    /\ ParseIdle
    /\ BlockIdle
    /\ OtherIdle

\* Sign In commands, one after the other, and the callbacks of their
\* sign-ins.
SpecSignIn == SignInInit /\ [][SignInNext]_vars

\* ------------------------------------------------ the nested-@ cleanup
\* Longest line (in characters) the cleanup is run on.
MaxAtChars == 6

\* Number of cleanup passes run on a line.
MaxPasses == 2

\* the characters the lines are built from
AtChars == {"@", "a", "(", ")", "'"}

\* Check if a character is a letter (a-z, A-Z).
isLetter(sChar) == IsAlpha(sChar)

\* sLine[i], "" past the end (i is 0-based)
CharAt(sLine, iAt) == IF iAt >= 0 /\ iAt < Len(sLine) THEN sLine[iAt + 1] ELSE ""

\* sLine[i] === "@" && i + 1 < sLine.length && isLetter(sLine[i + 1])
AtBeforeLetter(sLine, iAt) ==
    CharAt(sLine, iAt) = "@" /\ iAt + 1 < Len(sLine) /\ isLetter(sLine[iAt + 2])

\* the while loop that skips the function name: letters, digits and "_"
RECURSIVE SkipName(_, _)
SkipName(sLine, iAt) ==
    IF iAt < Len(sLine) /\ (IsAlnum(sLine[iAt + 1]) \/ sLine[iAt + 1] = "_")
    THEN SkipName(sLine, iAt + 1)
    ELSE iAt

\* the while loop that skips a single-quoted literal, entered after its
\* opening quote: the index after the closing quote, or the end
RECURSIVE SkipLiteral(_, _)
SkipLiteral(sLine, iAt) ==
    IF iAt >= Len(sLine) THEN iAt
    ELSE IF sLine[iAt + 1] = "'" /\ iAt + 1 < Len(sLine) /\ sLine[iAt + 2] = "'"
    THEN SkipLiteral(sLine, iAt + 2)
    ELSE IF sLine[iAt + 1] = "'" THEN iAt + 1
    ELSE SkipLiteral(sLine, iAt + 1)

\* the inner while loop (i < sLine.length && iDepth > 0): the index it
\* ends at and the edits
RECURSIVE ScanInside(_, _, _, _)
ScanInside(sLine, iAt, iDepth, aEdits) ==
    IF ~(iAt < Len(sLine) /\ iDepth > 0) THEN [iAt |-> iAt, aEdits |-> aEdits]
    ELSE IF sLine[iAt + 1] = "'"
    THEN ScanInside(sLine, SkipLiteral(sLine, iAt + 1), iDepth, aEdits)
    ELSE IF sLine[iAt + 1] = "("
    THEN ScanInside(sLine, iAt + 1, iDepth + 1, aEdits)
    ELSE IF sLine[iAt + 1] = ")"
    THEN ScanInside(sLine, iAt + 1, iDepth - 1, aEdits)
    ELSE IF AtBeforeLetter(sLine, iAt)
    THEN ScanInside(sLine, iAt + 1, iDepth, aEdits \cup {iAt})
    ELSE ScanInside(sLine, iAt + 1, iDepth, aEdits)

\* the outer while loop (i < sLine.length)
RECURSIVE ScanLine(_, _, _)
ScanLine(sLine, iAt, aEdits) ==
    IF iAt >= Len(sLine) THEN aEdits
    ELSE IF AtBeforeLetter(sLine, iAt)
    THEN LET iAfterName == SkipName(sLine, iAt + 1)
         IN  IF iAfterName < Len(sLine) /\ sLine[iAfterName + 1] = "("
             THEN LET oInside == ScanInside(sLine, iAfterName + 1, 1, aEdits)
                  IN  ScanLine(sLine, oInside.iAt, oInside.aEdits)
             ELSE ScanLine(sLine, iAfterName, aEdits)
    ELSE ScanLine(sLine, iAt + 1, aEdits)

\* Scan a line for @ symbols inside an outer expression's parentheses:
\* the columns of the edits that delete them
findNestedAtEdits(sLine) == ScanLine(sLine, 0, {})

\* the line after the edits are applied: the characters at the columns
\* are deleted
RECURSIVE AfterDeletes(_, _)
AfterDeletes(sLine, aColumns) ==
    IF sLine = <<>> THEN <<>>
    ELSE AfterDeletes(SubSeq(sLine, 1, Len(sLine) - 1), aColumns)
         \o (IF (Len(sLine) - 1) \in aColumns THEN <<>> ELSE <<sLine[Len(sLine)]>>)

\* the variables the cleanup passes leave alone
exceptAt ==
    <<parseVars, blockVars, returnVars, exampleVars, repeatVars, tokenVars, envListVars,
      updateVars, intellisenseVars, openVars, signInVars, skillVars, cleanupVars>>

AtInit ==
    /\ ParseIdle
    /\ BlockIdle
    /\ oReturnInfo = Null
    /\ stExample = ExampleStart
    /\ RepeatIdle
    /\ TokenIdle
    /\ EnvListIdle
    /\ UpdateIdle
    /\ IntellisenseIdle
    /\ OpenIdle
    /\ SignInIdle
    /\ SkillIdle
    /\ CleanupIdle
    /\ sAtLine \in SeqsUpTo(AtChars, MaxAtChars)
    /\ pcAt = "scan"
    /\ aAtEdits = {}
    /\ iPasses = 0
    /\ hAtLines = <<>>

\* findNestedAtEdits(sLineText, iLine) on the line
CleanupScan ==
    /\ pcAt = "scan"
    /\ aAtEdits' = findNestedAtEdits(sAtLine)
    /\ pcAt' = "apply"
    /\ UNCHANGED <<sAtLine, iPasses, hAtLines>>
    /\ UNCHANGED exceptAt

\* The edits of the pass are applied to the line.
CleanupApply ==
    /\ pcAt = "apply"
    /\ sAtLine' = AfterDeletes(sAtLine, aAtEdits)
    /\ hAtLines' = Append(hAtLines, sAtLine)
    /\ iPasses' = iPasses + 1
    /\ pcAt' = IF iPasses' < MaxPasses THEN "scan" ELSE "done"
    /\ UNCHANGED aAtEdits
    /\ UNCHANGED exceptAt

AtNext ==
    \/ CleanupScan
    \/ CleanupApply

\* Cleanup passes on one line, each applied before the next.
SpecNestedAt == AtInit /\ [][AtNext]_vars

\* -------------------------------------------------------- the skill files
\* Number of activations of the extension.
MaxActivations == 3

\* activate: the directory of sSkillDestPath, where the activation looks
\* for the installed file
S_CheckedDir == "powerAutomateUtility"

\* installSkillFile: sExtensionName, the directory the file is copied to
S_InstallDir == "flow-intellisense"

\* the directory of the flow definition skill file
S_FlowDefDir == "powerAutomateFlowDefinition"

S_InstallFlagKey == "bSkillFileInstalled"
S_FlowDefInstallFlagKey == "bFlowDefSkillFileInstalled"

SkillDirs == {S_CheckedDir, S_InstallDir, S_FlowDefDir}
SkillFlagKeys == {S_InstallFlagKey, S_FlowDefInstallFlagKey}

\* oContext.globalState.get(sKey, false)
FlagOf(oFlags, sKey) == IF sKey \in DOMAIN oFlags THEN oFlags[sKey] ELSE FALSE

\* fileExists(path.join(os.homedir(), ".copilot", "skills", sDir, "SKILL.md"))
fileExists(aFiles, sDir) == sDir \in aFiles

\* activate: if (!bIsInstalled || !fileExists(sSkillDestPath))
RunsInstall(oFlags, aFiles) ==
    ~FlagOf(oFlags, S_InstallFlagKey) \/ ~fileExists(aFiles, S_CheckedDir)

\* activate: if (!bFlowDefIsInstalled || !fileExists(sFlowDefSkillDestPath))
RunsFlowDefInstall(oFlags, aFiles) ==
    ~FlagOf(oFlags, S_FlowDefInstallFlagKey) \/ ~fileExists(aFiles, S_FlowDefDir)

\* installSkillFile, installFlowDefinitionSkillFile: the file is copied to
\* its directory, unless the source file is missing
AfterInstall(aFiles, sDir, bSource) == IF bSource THEN aFiles \cup {sDir} ELSE aFiles

\* deleteSkillFile: the flags of the files it finds, by aSkillDirs
DeletedFlagKeys(aFiles) ==
    (IF fileExists(aFiles, S_InstallDir) \/ fileExists(aFiles, S_CheckedDir)
     THEN {S_InstallFlagKey} ELSE {})
    \cup (IF fileExists(aFiles, S_FlowDefDir) THEN {S_FlowDefInstallFlagKey} ELSE {})

\* deleteSkillFile: the flags after the loop over aSkillDirs
FlagsAfterDelete(oFlags, aFiles) ==
    [sKey \in DOMAIN oFlags \cup DeletedFlagKeys(aFiles)
     |-> IF sKey \in DeletedFlagKeys(aFiles) THEN FALSE ELSE oFlags[sKey]]

\* the variables the skill files leave alone
exceptSkill ==
    <<parseVars, blockVars, returnVars, exampleVars, repeatVars, tokenVars, envListVars,
      updateVars, intellisenseVars, openVars, signInVars, atVars, cleanupVars>>

\* A machine before the first activation of this version: any skill
\* files and flags an earlier version or the user left.
SkillInit ==
    /\ ParseIdle
    /\ BlockIdle
    /\ oReturnInfo = Null
    /\ stExample = ExampleStart
    /\ RepeatIdle
    /\ TokenIdle
    /\ EnvListIdle
    /\ UpdateIdle
    /\ IntellisenseIdle
    /\ OpenIdle
    /\ SignInIdle
    /\ AtIdle
    /\ CleanupIdle
    /\ aSkillFiles \in SUBSET SkillDirs
    /\ oSkillFlags \in {<<>>} \cup [SkillFlagKeys -> BOOLEAN]
    /\ bSkillSource \in BOOLEAN
    /\ iActivations = 0
    /\ hInstallRuns = 0

\* activate, the part on the skill files: each file is installed when its
\* flag is not set or the file looked for is missing, and its flag is set
ActivateSkillFiles ==
    /\ iActivations < MaxActivations
    /\ iActivations' = iActivations + 1
    /\ LET bInstall == RunsInstall(oSkillFlags, aSkillFiles)
           bFlowDef == RunsFlowDefInstall(oSkillFlags, aSkillFiles)
           aFiles1 == IF bInstall THEN AfterInstall(aSkillFiles, S_InstallDir, bSkillSource)
                      ELSE aSkillFiles
       IN  /\ hInstallRuns' = IF bInstall THEN hInstallRuns + 1 ELSE hInstallRuns
           /\ aSkillFiles' = IF bFlowDef THEN AfterInstall(aFiles1, S_FlowDefDir, bSkillSource)
                             ELSE aFiles1
           /\ oSkillFlags' =
                 [sKey \in DOMAIN oSkillFlags
                            \cup (IF bInstall THEN {S_InstallFlagKey} ELSE {})
                            \cup (IF bFlowDef THEN {S_FlowDefInstallFlagKey} ELSE {})
                  |-> IF sKey = S_InstallFlagKey /\ bInstall THEN TRUE
                      ELSE IF sKey = S_FlowDefInstallFlagKey /\ bFlowDef THEN TRUE
                      ELSE oSkillFlags[sKey]]
    /\ UNCHANGED bSkillSource
    /\ UNCHANGED exceptSkill

\* The command Delete Skill File: every SKILL.md found is deleted and its
\* flag set to false.
DeleteSkillFileCommand ==
    /\ aSkillFiles # {}
    /\ oSkillFlags' = FlagsAfterDelete(oSkillFlags, aSkillFiles)
    /\ aSkillFiles' = {}
    /\ UNCHANGED <<bSkillSource, iActivations, hInstallRuns>>
    /\ UNCHANGED exceptSkill

\* The user deletes a SKILL.md outside the extension.
SkillFileRemoved ==
    \E sDir \in aSkillFiles :
        /\ aSkillFiles' = aSkillFiles \ {sDir}
        /\ UNCHANGED <<oSkillFlags, bSkillSource, iActivations, hInstallRuns>>
        /\ UNCHANGED exceptSkill

SkillNext ==
    \/ ActivateSkillFiles
    \/ DeleteSkillFileCommand
    \/ SkillFileRemoved

\* Activations, Delete Skill File commands and deletions by the user.
SpecSkillFile == SkillInit /\ [][SkillNext]_vars

\* ------------------------------------------- the nested-@ change listener
\* Number of changes the user makes to the line.
MaxChanges == 4

K_Nested == <<"@", "a", "(", "@", "a", ")">>
K_Clean == <<"@", "a", "(", "a", ")">>
K_Double == <<"@", "a", "(", "@", "@", "a">>
K_Plain == <<"a">>

\* the lines the user leaves the document with
CleanupLines == {K_Nested, K_Clean, K_Double, K_Plain}

\* the language ids of the documents that change
LanguageIds == {"json", "xml"}

\* a flag that stays set when applyEdit is rejected
StaysSetWhenRejected(bFulfilled) == ~bFulfilled

\* bCleaningUpAt after applyEdit settles: both callbacks of then() set
\* it to false
FlagAfterSettle(bFulfilled) == FALSE

\* if (bCleaningUpAt) return
ListenerIgnores(bFlag) == bFlag

\* the listener on a change event gets as far as its scan: not while
\* cleaning up, only for the document of the active editor, only for
\* json, jsonc and plaintext
ListenerScans(bFlag, bActive, sLangId) ==
    /\ ~ListenerIgnores(bFlag)
    /\ bActive
    /\ sLangId \in {"json", "jsonc", "plaintext"}

\* the variables the change listener leaves alone
exceptCleanup ==
    <<parseVars, blockVars, returnVars, exampleVars, repeatVars, tokenVars, envListVars,
      updateVars, intellisenseVars, openVars, signInVars, atVars, skillVars>>

CleanupInit ==
    /\ ParseIdle
    /\ BlockIdle
    /\ oReturnInfo = Null
    /\ stExample = ExampleStart
    /\ RepeatIdle
    /\ TokenIdle
    /\ EnvListIdle
    /\ UpdateIdle
    /\ IntellisenseIdle
    /\ OpenIdle
    /\ SignInIdle
    /\ AtIdle
    /\ SkillIdle
    /\ sDocLine \in CleanupLines
    /\ bCleaningUpAt = FALSE
    /\ pcApply = "none"
    /\ aPendingEdits = {}
    /\ iChanges = 0
    /\ iIssued = 0

\* The user changes a document and the listener runs on the event: with
\* edits found it sets the flag and calls applyEdit.  A change of the
\* active document leaves its line as sLine.
DocumentChanged ==
    \E sLine \in CleanupLines, bActive \in BOOLEAN, sLangId \in LanguageIds :
        /\ iChanges < MaxChanges
        /\ iChanges' = iChanges + 1
        /\ sDocLine' = IF bActive THEN sLine ELSE sDocLine
        /\ IF ListenerScans(bCleaningUpAt, bActive, sLangId) /\ findNestedAtEdits(sLine) # {}
           THEN /\ bCleaningUpAt' = TRUE
                /\ pcApply' = "issued"
                /\ aPendingEdits' = findNestedAtEdits(sLine)
                /\ iIssued' = iIssued + 1
           ELSE UNCHANGED <<bCleaningUpAt, pcApply, aPendingEdits, iIssued>>
        /\ UNCHANGED exceptCleanup

\* The edits of applyEdit are applied to the document, and the listener
\* runs on the change event of the edit.
ApplyEditApplied ==
    /\ pcApply = "issued"
    /\ sDocLine' = AfterDeletes(sDocLine, aPendingEdits)
    /\ IF ListenerScans(bCleaningUpAt, TRUE, "json") /\ findNestedAtEdits(sDocLine') # {}
       THEN /\ bCleaningUpAt' = TRUE
            /\ pcApply' = "issued"
            /\ aPendingEdits' = findNestedAtEdits(sDocLine')
            /\ iIssued' = iIssued + 1
       ELSE /\ pcApply' = "applied"
            /\ UNCHANGED <<bCleaningUpAt, aPendingEdits, iIssued>>
    /\ UNCHANGED iChanges
    /\ UNCHANGED exceptCleanup

\* The thenable of applyEdit settles: fulfilled after the edits were
\* applied; fulfilled or rejected when they were not.
ApplyEditSettled ==
    \E bFulfilled \in BOOLEAN :
        /\ pcApply \in {"issued", "applied"}
        /\ pcApply = "applied" => bFulfilled
        /\ bCleaningUpAt' = FlagAfterSettle(bFulfilled)
        /\ pcApply' = "none"
        /\ aPendingEdits' = {}
        /\ UNCHANGED <<sDocLine, iChanges, iIssued>>
        /\ UNCHANGED exceptCleanup

CleanupNext ==
    \/ DocumentChanged
    \/ ApplyEditApplied
    \/ ApplyEditSettled

\* Changes of the document and the applyEdit of the listener, in any order.
SpecCleanup == CleanupInit /\ [][CleanupNext]_vars

\* The same where the thenable of an applyEdit that was called settles.
SpecCleanupFair ==
    /\ CleanupInit
    /\ [][CleanupNext]_vars
    /\ WF_vars(ApplyEditSettled)

\* ------------------------------------------------ the IntelliSense toggle
\* Number of Toggle IntelliSense commands run.
MaxToggles == 8

\* the key of the persisted flag
S_FlagKey == <<"bIntellisenseEnabled">>

\* the kinds of provider registerIntellisenseProviders registers, in order
S_Completion == "completion"
S_ActionCompletion == "action completion"
S_Hover == "hover"
S_SignatureHelp == "signature help"
S_ParametersCompletion == "parameters completion"

\* the provider kinds of one call: the action completion provider is
\* registered when actions.json is found, read and parsed
KindsRegistered(bActionsLoaded) ==
    <<S_Completion>>
    \o (IF bActionsLoaded THEN <<S_ActionCompletion>> ELSE <<>>)
    \o <<S_Hover, S_SignatureHelp, S_ParametersCompletion>>

\* the places n+1 .. n+k
PlacesAfter(n, k) == [j \in 1..k |-> n + j]

\* a new state that is the current state
SameState(bCurrentState) == bCurrentState

\* const bNewState = !bCurrentState
NewState(bCurrentState) == ~bCurrentState

\* aProviders after registerIntellisenseProviders
ProvidersAfterRegister(bActionsLoaded) ==
    aProviders \o [j \in 1..Len(KindsRegistered(bActionsLoaded)) |->
                      [sKind |-> KindsRegistered(bActionsLoaded)[j], bDisposed |-> FALSE]]

\* aIntellisenseDisposables after registerIntellisenseProviders
DisposablesAfterRegister(bActionsLoaded) ==
    aIntellisenseDisposables
    \o PlacesAfter(Len(aProviders), Len(KindsRegistered(bActionsLoaded)))

\* aProviders after disposeIntellisenseProviders
ProvidersAfterDispose ==
    [j \in 1..Len(aProviders) |->
        IF \E k \in 1..Len(aIntellisenseDisposables) : aIntellisenseDisposables[k] = j
        THEN [aProviders[j] EXCEPT !.bDisposed = TRUE]
        ELSE aProviders[j]]

\* the variables the toggle leaves alone
exceptIntellisense ==
    <<parseVars, blockVars, returnVars, exampleVars, repeatVars, tokenVars, updateVars,
      oLastCall, hAdds, hEverAdded, openVars, signInVars, moreVars>>

\* the flag is not stored, or stored as true or as false by an earlier
\* session
IntellisenseInit ==
    /\ ParseIdle
    /\ BlockIdle
    /\ oReturnInfo = Null
    /\ stExample = ExampleStart
    /\ RepeatIdle
    /\ TokenIdle
    /\ oGlobalState \in {<<>>, S_FlagKey :> TRUE, S_FlagKey :> FALSE}
    /\ oLastCall = Null
    /\ hAdds = <<>>
    /\ hEverAdded = {}
    /\ UpdateIdle
    /\ IntellisenseIdle
    /\ OpenIdle
    /\ SignInIdle
    /\ MoreIdle

\* activate(oContext): without a reference file, with a parse that throws
\* or with no function it returns early; else the providers are
\* registered when the flag is set and the toggle command is registered.
Activate ==
    /\ pcExt = "start"
    /\ \E bReference \in BOOLEAN, bActionsLoaded \in BOOLEAN :
          LET bIntellisenseEnabled == GlobalStateGet(oGlobalState, S_FlagKey, TRUE)
          IN  IF ~bReference
              THEN /\ pcExt' = "failed"
                   /\ UNCHANGED <<aIntellisenseDisposables, aProviders, aSubscriptions>>
              ELSE /\ pcExt' = "active"
                   /\ IF bIntellisenseEnabled
                      THEN /\ aProviders' = ProvidersAfterRegister(bActionsLoaded)
                           /\ aIntellisenseDisposables' =
                                  DisposablesAfterRegister(bActionsLoaded)
                           /\ aSubscriptions' =
                                  aSubscriptions \o aIntellisenseDisposables' \o <<0>>
                      ELSE /\ aSubscriptions' = aSubscriptions \o <<0>>
                           /\ UNCHANGED <<aIntellisenseDisposables, aProviders>>
    /\ UNCHANGED <<oGlobalState, iToggles>>
    /\ UNCHANGED exceptIntellisense

\* The command powerAutomateUtility.toggleIntellisense.
ToggleIntellisense ==
    /\ pcExt = "active"
    /\ iToggles < MaxToggles
    /\ iToggles' = iToggles + 1
    /\ \E bActionsLoaded \in BOOLEAN :
          LET bCurrentState == GlobalStateGet(oGlobalState, S_FlagKey, TRUE)
              bNewState == NewState(bCurrentState)
          IN  /\ oGlobalState' = (S_FlagKey :> bNewState) @@ oGlobalState
              /\ IF bNewState
                 THEN /\ aProviders' = ProvidersAfterRegister(bActionsLoaded)
                      /\ aIntellisenseDisposables' =
                             DisposablesAfterRegister(bActionsLoaded)
                      /\ aSubscriptions' = aSubscriptions \o aIntellisenseDisposables'
                 ELSE /\ aProviders' = ProvidersAfterDispose
                      /\ aIntellisenseDisposables' = <<>>
                      /\ UNCHANGED aSubscriptions
    /\ UNCHANGED pcExt
    /\ UNCHANGED exceptIntellisense

IntellisenseNext ==
    \/ Activate
    \/ ToggleIntellisense

\* An activation and Toggle IntelliSense commands after it.
SpecIntellisense == IntellisenseInit /\ [][IntellisenseNext]_vars

\* =========================================================== properties
\* ------------------------------------------- what the properties speak of
\* the numbers (0-based) of the lines of the document
LineNumbers == 0..(Len(aLines) - 1)

\* the least number of a non-empty set of line numbers
Least(S) == CHOOSE k \in S : \A m \in S : k <= m

\* the greatest number of a non-empty set of line numbers
Greatest(S) == CHOOSE k \in S : \A m \in S : k >= m

\* the lines that carry the anchor of the alphabetical section
MarkerLines == {k \in LineNumbers : IsAlphaMarker(aLines[k + 1])}

\* the start line: the first marker line, line 0 when there is none
StartLine == IF MarkerLines = {} THEN 0 ELSE Least(MarkerLines)

\* line k has the shape of a function heading
HeadingShape(k) == matchFunctionHeading(aLines[k + 1]) # Null

\* the name in the heading on line k
HeadingName(k) == matchFunctionHeading(aLines[k + 1]).sName

\* the deny list
DeniedNames == {S_Base64, S_Implicit, S_Considerations}

\* line k is a heading whose name is not deny-listed
AcceptedHeading(k) == HeadingShape(k) /\ HeadingName(k) \notin DeniedNames

\* the accepted headings at or after the start line
AcceptedLines == {k \in LineNumbers : k >= StartLine /\ AcceptedHeading(k)}

\* the heading lines of the entries pushed so far
BlockStarts == {hBlocks[k].iStartIndex : k \in DOMAIN hBlocks}

\* the first line after h that begins a "##" or "###" heading, the number
\* of lines when there is none
NextHeadingAfter(h) ==
    LET S == {e \in LineNumbers : e > h /\ IsSectionHeading(aLines[e + 1])}
    IN  IF S = {} THEN Len(aLines) ELSE Least(S)

\* lines h+1 .. e-1 where e is the next heading after h
LinesUpToNextHeading(h) == SubSeq(aLines, h + 2, NextHeadingAfter(h))

\* C1: parseFunctionReference returns exactly one entry for every line at
\* or after the start line that has the heading shape and a name that is
\* not deny-listed; the entries are in the order of their headings, and no
\* heading is swallowed or de-duplicated.
C1_OneEntryPerHeading ==
    pc = "done" =>
        /\ Len(aFunctions) = Cardinality(AcceptedLines)
        /\ BlockStarts = AcceptedLines
        /\ \A k \in DOMAIN hBlocks :
               aFunctions[k].sName = HeadingName(hBlocks[k].iStartIndex)
        /\ \A k, m \in DOMAIN hBlocks :
               k < m => hBlocks[k].iStartIndex < hBlocks[m].iStartIndex

\* C2: for every accepted heading on line h, the block its fields are
\* extracted from is exactly lines h+1 .. e-1, e the first line after h
\* that begins a "##" or "###" heading (or the end of the document), also
\* when e = h+1, and scanning resumes at e.
C2_BlockEndsAtNextHeading ==
    \A k \in DOMAIN hBlocks :
        LET h == hBlocks[k].iStartIndex
            aLinesOfBlock == LinesUpToNextHeading(h)
        IN  /\ hBlocks[k].iNextIndex = NextHeadingAfter(h)
            /\ aFunctions[k].sDescription = extractDescription(aLinesOfBlock)
            /\ aFunctions[k].sSyntax = extractSyntax(aLinesOfBlock)
            /\ aFunctions[k].aParameters = extractParameters(aLinesOfBlock)
            /\ aFunctions[k].sReturnType = extractReturnInfo(aLinesOfBlock).sType
            /\ aFunctions[k].aExamples = extractExamples(aLinesOfBlock)

\* C3: the parse never throws; an empty document or a document without a
\* function heading yields an empty list; other documents yield at most
\* one entry per heading line, each with every field defined.
C3_ParseNeverThrows ==
    /\ pc # "threw"
    /\ pc = "done" =>
           /\ (\A k \in LineNumbers : ~HeadingShape(k)) => aFunctions = <<>>
           /\ Len(aFunctions) <= Cardinality({k \in LineNumbers : HeadingShape(k)})
    /\ \A k \in DOMAIN aFunctions :
           /\ aFunctions[k].sDescription # Undefined
           /\ aFunctions[k].sSyntax # Undefined
           /\ aFunctions[k].sReturnType # Undefined
           /\ aFunctions[k].sReturnDescription # Undefined
           /\ DOMAIN aFunctions[k].aParameters = 1..Len(aFunctions[k].aParameters)
           /\ DOMAIN aFunctions[k].aExamples = 1..Len(aFunctions[k].aExamples)

\* C3, reached: the parse of the empty document has returned the empty list
C3_EmptyDocumentParsed ==
    pc = "done" /\ aLines = <<L_Blank>> /\ aFunctions = <<>>

\* line k matches the regular expression of a category definition
IsCategoryHeading(k) ==
    \E c \in DOMAIN aCategoryDefs :
        Contains(ToLower(aLines[k + 1]), ToLower(aCategoryDefs[c].sPattern))

\* the label of the first category definition line k matches
LabelOn(k) ==
    aCategoryDefs[Least({c \in DOMAIN aCategoryDefs :
        Contains(ToLower(aLines[k + 1]), ToLower(aCategoryDefs[c].sPattern))})].sLabel

\* the label of the last category heading at or before line k, "" if none
LabelAt(k) ==
    LET S == {j \in 0..k : IsCategoryHeading(j)}
    IN  IF S = {} THEN "" ELSE LabelOn(Greatest(S))

\* the rows, on lines before iEnd and under a category heading, that name
\* sName
RowsNaming(sName, iEnd) ==
    {k \in 0..(iEnd - 1) :
        /\ RowNameFrom(aLines[k + 1], 1) # Null
        /\ RowNameFrom(aLines[k + 1], 1).sName = sName
        /\ LabelAt(k) # ""}

\* the label the last such row stands under, "" if there is no such row
RegisteredLabel(sName, iEnd) ==
    IF RowsNaming(sName, iEnd) = {} THEN ""
    ELSE LabelAt(Greatest(RowsNaming(sName, iEnd)))

\* the nine category labels
CategoryLabels ==
    {"String", "Collection", "Logical comparison", "Conversion", "Math",
     "Date and time", "Workflow", "URI parsing", "Manipulation"}

\* C4 as stated: when no line carries the marker, pass 2 scans from line 0
\* and no category is resolved: every entry has category "Other".  (Names
\* that Object.prototype defines are set aside here: they are the matter
\* of C5.)
C4_NoMarkerAllOther ==
    (pc = "done" /\ MarkerLines = {}) =>
        /\ AcceptedLines # {} =>
               hBlocks # <<>> /\ hBlocks[1].iStartIndex = Least(AcceptedLines)
        /\ \A k \in DOMAIN aFunctions :
               aFunctions[k].sName \notin ObjectPrototypeNames
                   => aFunctions[k].sCategory = "Other"

\* C4, amended: when no line carries the marker, pass 2 scans from line 0
\* and pass 1 reads the whole document: an entry whose name is named by a
\* summary row under a category heading, anywhere in the document, has
\* the label that the last such row stands under.
C4_NoMarkerRowsResolve ==
    (pc = "done" /\ MarkerLines = {}) =>
        /\ AcceptedLines # {} =>
               hBlocks # <<>> /\ hBlocks[1].iStartIndex = Least(AcceptedLines)
        /\ \A k \in DOMAIN aFunctions :
               RegisteredLabel(aFunctions[k].sName, Len(aLines)) # ""
                   => aFunctions[k].sCategory =
                          RegisteredLabel(aFunctions[k].sName, Len(aLines))

\* C4, reached: a document without marker whose function is listed under
\* "## Math functions" has been parsed, and the entry has category "Math"
C4_NoMarkerMathResolved ==
    /\ pc = "done"
    /\ aLines = <<L_MathFunctions, L_RowAdd, L_Add>>
    /\ Len(aFunctions) = 1
    /\ aFunctions[1].sCategory = "Math"

\* C5: every entry has a category that is one of the nine labels or
\* "Other", and it is "Other" exactly when no summary row registered its
\* name in pass 1.
C5_CategoryIsLabelOrOther ==
    \A k \in DOMAIN aFunctions :
        /\ aFunctions[k].sCategory \in CategoryLabels \cup {"Other"}
        /\ aFunctions[k].sCategory = "Other"
               <=> aFunctions[k].sName \notin DOMAIN oMap

\* C6: in pass 1 the name -> category table changes only on a row line
\* that has a category heading at or before it and no marker line at or
\* before it, and then by the row's name under that heading's label.
C6_RowsOutsideCategorySpanIgnored ==
    [][oMap' # oMap =>
          /\ i \in LineNumbers
          /\ LabelAt(i) # ""
          /\ \A j \in 0..i : j \notin MarkerLines
          /\ RowNameFrom(aLines[i + 1], 1) # Null
          /\ oMap' = (RowNameFrom(aLines[i + 1], 1).sName :> LabelAt(i)) @@ oMap
      ]_vars

\* C6, reached: pass 1 has ended on a document with a row before the first
\* category heading, the same row after it and a row on the marker line;
\* only the row after the heading is in the table
C6_OnlyRowInSpanRegistered ==
    /\ aLines = <<L_RowAdd, L_MathFunctions, L_RowAdd, L_MarkerRow>>
    /\ pc = "findStart"
    /\ DOMAIN oMap = {<<"a","d","d">>}
    /\ oMap[<<"a","d","d">>] = "Math"

\* the heading on line d lies inside the block of an entry
Swallowed(d) ==
    \E k \in DOMAIN hBlocks :
        hBlocks[k].iStartIndex < d /\ d < hBlocks[k].iNextIndex

\* C7: no entry is named Base64, Implicit or Considerations; a denied
\* heading the scan stands on advances it by one line only, so an accepted
\* heading on the next line has its entry.
C7_DeniedNamesNeverReturned ==
    /\ \A k \in DOMAIN aFunctions : aFunctions[k].sName \notin DeniedNames
    /\ pc = "done" =>
           \A d \in LineNumbers :
               ( /\ d >= StartLine
                 /\ HeadingShape(d) /\ HeadingName(d) \in DeniedNames
                 /\ ~Swallowed(d)
                 /\ d + 1 \in LineNumbers
                 /\ AcceptedHeading(d + 1) )
               => d + 1 \in BlockStarts

\* C7, reached: "### Base64" followed by "### add" has been parsed and the
\* one entry is add
C7_HeadingAfterDeniedParsed ==
    /\ pc = "done"
    /\ aLines = <<L_Base64, L_Add>>
    /\ Len(aFunctions) = 1
    /\ aFunctions[1].sName = <<"a","d","d">>

\* C8: an entry's deprecated flag is true only if its heading line
\* contains "(deprecated)", in any case of letters; a mention in the body
\* of the block does not set it.
C8_DeprecatedOnlyFromHeading ==
    \A k \in DOMAIN aFunctions :
        aFunctions[k].bDeprecated
            => Contains(ToLower(aLines[hBlocks[k].iStartIndex + 1]), S_Deprecated)

\* C8, reached: an entry whose body mentions "(deprecated)" has the flag
\* false, and the entry of "### sub (Deprecated) x" has it true
C8_BodyMentionLeavesFlag ==
    /\ pc = "done"
    /\ aLines = <<L_Add, L_RowAdd, L_SubDeprecated>>
    /\ Len(aFunctions) = 2
    /\ ~aFunctions[1].bDeprecated
    /\ aFunctions[2].bDeprecated

\* ------------------------------------------------ blocks and their lines
\* the numbers (0-based) of the lines of the block
BlockNumbers == 0..(Len(aBlock) - 1)

\* line k of the block, trimmed, is empty or carries an anchor tag
BlankOrAnchor(k) ==
    trim(aBlock[k + 1]) = <<>> \/ Contains(trim(aBlock[k + 1]), S_AName)

\* line k of the block, trimmed, begins with ">"
BeginsQuote(k) ==
    trim(aBlock[k + 1]) # <<>> /\ trim(aBlock[k + 1])[1] = ">"

\* the first line that is neither empty nor an anchor; the number of lines
\* when there is none
FirstLine == Least({k \in BlockNumbers : ~BlankOrAnchor(k)} \cup {Len(aBlock)})

\* the first real content line: neither empty, nor an anchor, nor a line
\* of an admonition block; the number of lines when there is none
FirstContentLine ==
    Least({k \in BlockNumbers : ~BlankOrAnchor(k) /\ ~BeginsQuote(k)}
          \cup {Len(aBlock)})

\* the lines of the block from line k on
BlockFrom(k) == SubSeq(aBlock, k + 1, Len(aBlock))

\* the line at which the description scan resumes after a note block that
\* begins on line k: the first later line that is neither empty nor begins
\* with ">", or the line after the first empty line that is not followed
\* by a line beginning with ">"; the number of lines when there is none
ResumeAfterNote(k) ==
    LET S == {j \in BlockNumbers :
                 /\ j > k
                 /\ \/ trim(aBlock[j + 1]) # <<>> /\ ~BeginsQuote(j)
                    \/ /\ trim(aBlock[j + 1]) = <<>>
                       /\ j + 1 < Len(aBlock)
                       /\ ~BeginsQuote(j + 1)}
    IN  IF S = {} THEN Len(aBlock)
        ELSE IF trim(aBlock[Least(S) + 1]) # <<>> THEN Least(S)
        ELSE Least(S) + 1

\* C9 as stated: every admonition block (lines beginning with ">") before
\* the first real content line is skipped, whatever its kind: the
\* description is that of the block from its first real content line on.
C9_AnyAdmonitionSkipped ==
    (pcBlock = "returned" /\ sDescription # Undefined) =>
        sDescription = extractDescription(BlockFrom(FirstContentLine))

\* C9, amended: a block that begins, before the first real content line,
\* on a line containing "> [!NOTE]" is skipped: that line and the lines
\* after it that begin with ">" or are empty, up to the first other line
\* or past the first empty line not followed by a ">" line; the
\* description is that of the rest.  A ">" block of another kind is not
\* skipped: its first line is the first line of the description.
C9_NoteBlockSkipped ==
    (pcBlock = "returned" /\ sDescription # Undefined /\ FirstLine < Len(aBlock)) =>
        /\ Contains(trim(aBlock[FirstLine + 1]), S_Note) =>
               sDescription = extractDescription(BlockFrom(ResumeAfterNote(FirstLine)))
        /\ (BeginsQuote(FirstLine) /\ ~Contains(trim(aBlock[FirstLine + 1]), S_Note)) =>
               /\ stDesc.aDescLines # <<>>
               /\ stDesc.aDescLines[1] = trim(aBlock[FirstLine + 1])

\* C9, reached: the description of a block of a note line, a quoted line,
\* a second admonition line and a line of text is the text alone
C9_NoteThenTextDescribed ==
    /\ pcBlock = "returned"
    /\ aBlock = <<S_Note, L_Quote, L_Important, L_Text>>
    /\ sDescription = <<"A","d","d","s",".">>

\* ------------------------------------------------------ parameter rows
\* the row the for loop of extractParameters stands on, when it stands on
\* a row of the parameter table with four cells or more
OnParameterRow ==
    /\ pcBlock = "extractParameters"
    /\ stParam.i < Len(aBlock)
    /\ ~stParam.bBreak
    /\ stParam.bInParamTable
    /\ LET sRow == trim(aBlock[stParam.i + 1])
       IN  /\ Contains(sRow, S_Pipe)
           /\ ~Contains(sRow, S_ParamHeader)
           /\ ~Contains(sRow, S_Separator)
           /\ ~Contains(sRow, S_ReturnHeader)
           /\ Len(RowCells(sRow)) >= 4

\* the cleaned name cell of a row
CleanedNameCell(sRow) == CleanName(trim(RowCells(sRow)[1]))

\* the names a cleaned name cell lists: its pieces between commas,
\* trimmed, the empty ones left out
ListedNames(sCleanName) ==
    LET a == FilterNotBlank(SplitChar(sCleanName, ",", 1))
    IN  [k \in 1..Len(a) |-> trim(a[k])]

\* the Parameter of a row under a name
RowParameter(sRow, sName) ==
    [sName |-> sName,
     bRequired |-> trim(RowCells(sRow)[2]) = S_Yes,
     sType |-> trim(RowCells(sRow)[3]),
     sDescription |-> cleanMarkdown(trim(RowCells(sRow)[4]))]

\* the Parameters a row is to yield
ExpectedParameters(sRow) ==
    IF Contains(CleanedNameCell(sRow), S_Dots)
    THEN <<RowParameter(sRow, CleanedNameCell(sRow))>>
    ELSE [k \in 1..Len(ListedNames(CleanedNameCell(sRow))) |->
              RowParameter(sRow, ListedNames(CleanedNameCell(sRow))[k])]

\* C10: a step over a parameter row whose cleaned name cell lists several
\* names separated by commas appends one Parameter per non-empty name,
\* from left to right, all with the row's required, type and description;
\* over a row whose name cell contains "..." it appends exactly one
\* Parameter named by the whole cleaned cell; what was collected from the
\* rows before stays in front.
C10_CombinedRowsExpand ==
    [][( /\ OnParameterRow
         /\ \/ Contains(CleanedNameCell(trim(aBlock[stParam.i + 1])), <<",">>)
            \/ Contains(CleanedNameCell(trim(aBlock[stParam.i + 1])), S_Dots) )
       => stParam'.aParams =
              stParam.aParams \o ExpectedParameters(trim(aBlock[stParam.i + 1]))
      ]_vars

\* C10, reached: a table of a two-name row and a variadic row has yielded
\* the Parameters a, b and "a, ..." in that order
C10_TwoNamesThenVariadic ==
    /\ pcBlock = "returned"
    /\ aBlock = <<S_ParamHeader, S_Separator, L_RowTwo, L_RowVariadic>>
    /\ Len(stParam.aParams) = 3
    /\ stParam.aParams[1].sName = <<"a">>
    /\ stParam.aParams[2].sName = <<"b">>
    /\ stParam.aParams[3].sName = <<"a",","," ",".",".",".">>
    /\ stParam.aParams[1].bRequired /\ stParam.aParams[2].bRequired
    /\ stParam.aParams[1].sDescription = <<"x">>

\* the for loop of extractParameters stands on a row of the parameter
\* table with fewer than four non-empty cells
OnShortRow ==
    /\ pcBlock = "extractParameters"
    /\ stParam.i < Len(aBlock)
    /\ ~stParam.bBreak
    /\ stParam.bInParamTable
    /\ LET sRow == trim(aBlock[stParam.i + 1])
       IN  /\ Contains(sRow, S_Pipe)
           /\ ~Contains(sRow, S_ParamHeader)
           /\ ~Contains(sRow, S_Separator)
           /\ ~Contains(sRow, S_ReturnHeader)
           /\ Len(RowCells(sRow)) < 4

\* the names of the fields of a Parameter
ParameterFields == {"sName", "bRequired", "sType", "sDescription"}

\* C11: a step over a row of the parameter table with fewer than four
\* non-empty cells appends no Parameter and goes on to the next row with
\* the table still open; every Parameter collected has its four fields,
\* none of them undefined.
C11_ShortRowsSkipped ==
    [][ /\ OnShortRow =>
               /\ stParam'.aParams = stParam.aParams
               /\ stParam'.i = stParam.i + 1
               /\ stParam'.bInParamTable
               /\ ~stParam'.bBreak
        /\ \A k \in DOMAIN stParam'.aParams :
               /\ DOMAIN stParam'.aParams[k] = ParameterFields
               /\ stParam'.aParams[k].sName # Undefined
               /\ stParam'.aParams[k].bRequired \in BOOLEAN
               /\ stParam'.aParams[k].sType # Undefined
               /\ stParam'.aParams[k].sDescription # Undefined
      ]_vars

\* C11, reached: a table whose first row has three cells and whose second
\* row names a and b has yielded the Parameters a and b alone
C11_RowAfterShortRowParsed ==
    /\ pcBlock = "returned"
    /\ aBlock = <<S_ParamHeader, S_Separator, L_RowShort, L_RowTwo>>
    /\ Len(stParam.aParams) = 2
    /\ stParam.aParams[1].sName = <<"a">>
    /\ stParam.aParams[2].sName = <<"b">>

\* ------------------------------------------------- return-value tables
\* line k of the block is the header line of a return-value table
ReturnHeaderOn(k) ==
    \/ Contains(trim(aBlock[k + 1]), S_ReturnValueLc)
    \/ Contains(trim(aBlock[k + 1]), S_ReturnValueUc)

\* the header lines of return-value tables in the block
ReturnHeaderLines == {k \in BlockNumbers : ReturnHeaderOn(k)}

\* the lines after the first header that are neither header lines nor
\* separator lines
AfterReturnHeader ==
    {k \in BlockNumbers :
        /\ k > Least(ReturnHeaderLines)
        /\ ~ReturnHeaderOn(k)
        /\ ~Contains(trim(aBlock[k + 1]), S_Separator)}

\* the block has a return-value table whose header is followed, separator
\* lines aside, by a row of three non-empty cells or more
HasReturnRow ==
    /\ ReturnHeaderLines # {}
    /\ AfterReturnHeader # {}
    /\ Contains(trim(aBlock[Least(AfterReturnHeader) + 1]), S_Pipe)
    /\ Len(RowCells(trim(aBlock[Least(AfterReturnHeader) + 1]))) >= 3

\* C12 as stated: when the block has a header line of a return-value
\* table the return type is not empty; when it has none, the return type
\* and the return description are both the empty string.
C12_ReturnTypeNonEmpty ==
    (pcBlock = "returned" /\ oReturnInfo # Null) =>
        /\ ReturnHeaderLines # {} => oReturnInfo.sType # <<>>
        /\ ReturnHeaderLines = {} =>
               oReturnInfo.sType = <<>> /\ oReturnInfo.sDescription = <<>>

\* C12, amended: when the first line after the header of the return-value
\* table, separator lines aside, is a row of three non-empty cells or
\* more, the return type is the cleaned second cell and the return
\* description the cleaned third cell of that row; when the block has no
\* header line, or the header is not followed by such a row, both are the
\* empty string.
C12_ReturnInfoFromFirstRow ==
    (pcBlock = "returned" /\ oReturnInfo # Null) =>
        IF HasReturnRow
        THEN LET aCells == RowCells(trim(aBlock[Least(AfterReturnHeader) + 1]))
             IN  /\ oReturnInfo.sType = cleanMarkdown(trim(aCells[2]))
                 /\ oReturnInfo.sDescription = cleanMarkdown(trim(aCells[3]))
        ELSE oReturnInfo.sType = <<>> /\ oReturnInfo.sDescription = <<>>

\* C12, reached: a table of header, separator and row has given the type
\* "int" and the description "sum"
C12_ReturnRowRead ==
    /\ pcBlock = "returned"
    /\ aBlock = <<S_ReturnValueLc, S_Separator, L_ReturnRow>>
    /\ oReturnInfo # Null
    /\ oReturnInfo.sType = <<"i","n","t">>
    /\ oReturnInfo.sDescription = <<"s","u","m">>

\* ------------------------------------------------------------ examples
\* the lines of the block that carry an example header
ExampleHeaderLines ==
    {k \in BlockNumbers : Contains(trim(aBlock[k + 1]), S_Example)}

\* the fence lines after line e
FencesAfter(e) ==
    {k \in BlockNumbers : k > e /\ Contains(trim(aBlock[k + 1]), S_Fence)}

\* the n-th fence line after line e
NthFence(e, n) ==
    CHOOSE k \in FencesAfter(e) :
        Cardinality({m \in FencesAfter(e) : m <= k}) = n

\* the code blocks under the header on line e: the pairs of an opening and
\* a closing fence, numbered from 1, that have a line between them
CodeBlocksUnder(e) ==
    {j \in 1..(Cardinality(FencesAfter(e)) \div 2) :
        NthFence(e, 2 * j) > NthFence(e, 2 * j - 1) + 1}

\* the lines between line f1 and line f2, trimmed and joined by newlines
JoinedBetween(f1, f2) ==
    join([k \in 1..(f2 - f1 - 1) |-> trim(aBlock[f1 + k + 1])], S_Newline)

\* C13 as stated: a block with two or more example code blocks under a
\* single example header yields at least that many example strings.
C13_EveryBlockCaptured ==
    ( /\ pcBlock = "returned"
      /\ Cardinality(ExampleHeaderLines) = 1
      /\ Cardinality(CodeBlocksUnder(Least(ExampleHeaderLines))) >= 2 )
    => Len(stExample.aExamples)
           >= Cardinality(CodeBlocksUnder(Least(ExampleHeaderLines)))

\* C13, amended: under a single example header only the first fenced block
\* that closes after the header is captured: the block yields exactly one
\* example string, the lines of that first block, when it has lines, and
\* none when it is empty or never closes, however many code blocks follow.
C13_FirstBlockCaptured ==
    (pcBlock = "returned" /\ Cardinality(ExampleHeaderLines) = 1) =>
        LET e == Least(ExampleHeaderLines)
        IN  stExample.aExamples =
                IF /\ Cardinality(FencesAfter(e)) >= 2
                   /\ NthFence(e, 2) > NthFence(e, 1) + 1
                THEN <<JoinedBetween(NthFence(e, 1), NthFence(e, 2))>>
                ELSE <<>>

\* C13, reached: two code blocks under one header have yielded one example
C13_TwoBlocksOneExample ==
    /\ pcBlock = "returned"
    /\ aBlock = <<L_ExampleHeader, S_Fence, L_Code, S_Fence, S_Fence, L_Code, S_Fence>>
    /\ stExample.aExamples = << <<"a","d","d","(","1",")">> >>

\* ---------------------------------------------------------------- C14
\* a parse of the text now parsed has returned earlier
SameTextParsedEarlier == hEarlier # Null /\ hEarlier.aLines = aLines

\* C14: parsing is deterministic and stateless across invocations: when a
\* parse returns, the list it returns equals, entry by entry and field by
\* field, the list any earlier parse of the same text returned, whatever
\* was parsed in between.
C14_SameTextSameList ==
    (pc = "done" /\ SameTextParsedEarlier) => hEarlier.aFunctions = aFunctions

\* C14 witness: a text is parsed a first and a third time, with another
\* parse in between, and the third parse returns the function under Other
\* as the first did.
C14_ParsedAgainAfterAnother ==
    /\ pc = "done"
    /\ iParses = 3
    /\ aLines = <<L_Add>>
    /\ SameTextParsedEarlier
    /\ Len(aFunctions) = 1
    /\ aFunctions[1].sCategory = "Other"
    /\ hEarlier.aFunctions = aFunctions

\* ---------------------------------------------------------------- C15
\* a step that ends an iteration of the while loop of pass 2
EndsScanIteration ==
    /\ pc \in {"scan", "extractFunctionBlock"}
    /\ pc' = "scan"

\* the description scan stands on the marker line of a note block it skips
OnSkippedNote ==
    /\ pcBlock = "extractDescription"
    /\ stDesc.i < Len(aBlock)
    /\ ~stDesc.bBreak
    /\ ~stDesc.bStarted
    /\ Contains(aBlock[stDesc.i + 1], S_Note)
    /\ ~Contains(aBlock[stDesc.i + 1], S_AName)
    /\ ~Contains(aBlock[stDesc.i + 1], S_Fence)
    /\ ~Contains(aBlock[stDesc.i + 1], S_ParamHeader)
    /\ ~Contains(aBlock[stDesc.i + 1], S_ReturnHeader)

\* the lines of the block after line k that are the rest of a note block:
\* the quoted lines that follow the marker line without a break
NoteBody(k) ==
    {j \in (k + 1)..(Len(aBlock) - 1) :
        \A m \in (k + 1)..j : IsQuoteLine(trim(aBlock[m + 1]))}

\* C15: the parse terminates on every input: it reaches its return; in
\* pass 2 the line index is strictly greater after every iteration of the
\* while loop, so the index extractFunctionBlock returns is greater than
\* the heading index; and an iteration of the description scan that skips a
\* note block leaves the index after the marker line and after the quoted
\* lines of the block.
C15_ParseTerminates ==
    /\ <>(pc = "done")
    /\ [][EndsScanIteration => iLineIndex' > iLineIndex]_vars
    /\ [][(OnSkippedNote /\ stDesc' # stDesc) =>
              /\ stDesc'.i > stDesc.i
              /\ \A j \in NoteBody(stDesc.i) : stDesc'.i > j]_vars

\* C15 witness: a parse has returned the entry of a heading whose block
\* begins with a note block: the note was skipped, the text after it is
\* the description, and pass 2 went on after the block.
C15_NoteSkippedParseDone ==
    /\ pc = "done"
    /\ aLines = <<L_Add, S_Note, L_Word>>
    /\ Len(aFunctions) = 1
    /\ aFunctions[1].sDescription = L_Word
    /\ hBlocks[1].iNextIndex = 3

\* ---------------------------------------------------------------- C16
\* C16: a token stored by a successful sign-in for an environment stays
\* cached, so that getToken returns it without a new sign-in, until 55
\* minutes after that sign-in unless clearToken is called: at any time
\* before, the cache holds that token for the environment.
C16_TokenCachedFor55Minutes ==
    \A sEnvUrl \in DOMAIN hSignIn :
        iNow < hSignIn[sEnvUrl].iAt + iCacheMinutes =>
            /\ sEnvUrl \in DOMAIN oTokenCache
            /\ oTokenCache[sEnvUrl] = hSignIn[sEnvUrl].sToken

\* ---------------------------------------------------------------- C17
\* the saved list of a tenant, as stored
SavedList(sTenant) ==
    IF EnvListKey(sTenant) \in DOMAIN oGlobalState
    THEN oGlobalState[EnvListKey(sTenant)] ELSE <<>>

\* the URLs of a log in the order of their first insertion
RECURSIVE FirstInsertions(_)
FirstInsertions(aLog) ==
    IF aLog = <<>> THEN <<>>
    ELSE LET aFront == FirstInsertions(SubSeq(aLog, 1, Len(aLog) - 1))
             sLast == aLog[Len(aLog)]
         IN  IF \E k \in 1..Len(aFront) : aFront[k] = sLast
             THEN aFront ELSE Append(aFront, sLast)

\* no URL stands twice in the list
NoDuplicates(aList) ==
    \A j, k \in 1..Len(aList) : aList[j] = aList[k] => j = k

\* what a call of addEnvToTenantList does to the list of its tenant
AddsAtEndOrLeaves ==
    oLastCall'.op = "add" =>
        LET sTenant == oLastCall'.sTenant
            sEnvUrl == oLastCall'.sEnvUrl
            aBefore == SavedList(sTenant)
            bPresent == \E k \in 1..Len(aBefore) : aBefore[k] = sEnvUrl
        IN  /\ (sTenant # "" /\ sEnvUrl # "" /\ ~bPresent) =>
                   oGlobalState' = (EnvListKey(sTenant) :> Append(aBefore, sEnvUrl))
                                   @@ oGlobalState
            /\ (sTenant = "" \/ sEnvUrl = "" \/ bPresent) =>
                   oGlobalState' = oGlobalState

\* C17: addEnvToTenantList appends the URL at the end of the tenant's saved
\* list when it is not yet in the list and leaves every list unchanged
\* when it is, or when the tenant or the URL is empty; after any sequence
\* of adds and clears the list of a tenant has no duplicates and holds the
\* URLs added since the last clear in the order of their first insertion.
C17_AddKeepsOrderNoDuplicates ==
    /\ [][AddsAtEndOrLeaves]_vars
    /\ [](\A sTenant \in Tenants \ {""} :
              /\ NoDuplicates(SavedList(sTenant))
              /\ SavedList(sTenant) = FirstInsertions(AddsOf(sTenant)))

\* C17 witness: a URL that was in the list has been added again after a
\* second URL: the list holds both, once each, in the order of insertion.
C17_AddedAgainListUnchanged ==
    /\ oLastCall # Null
    /\ oLastCall.op = "add"
    /\ oLastCall.sTenant = "contoso"
    /\ oLastCall.sEnvUrl = "https://env2"
    /\ AddsOf("contoso") = <<"https://env2", "https://env1", "https://env2">>
    /\ SavedList("contoso") = <<"https://env2", "https://env1">>

\* ---------------------------------------------------------------- C18
\* C18: getEnvListForTenant returns an empty list for a tenant for which
\* no environment was ever added, and for a tenant right after
\* clearEnvListForTenant, whatever was added before the clear.
C18_EmptyWhenNeverAddedOrCleared ==
    \A sTenant \in Tenants :
        \/ sTenant \notin hEverAdded
        \/ (oLastCall # Null /\ oLastCall.op = "clear" /\ oLastCall.sTenant = sTenant)
        => getEnvListForTenant(oGlobalState, sTenant) = <<>>

\* C18 witness: the list of a tenant held two URLs, was cleared, and the
\* list of another tenant is still saved.
C18_ClearedAfterTwoAdds ==
    /\ oLastCall # Null
    /\ oLastCall.op = "clear"
    /\ oLastCall.sTenant = "contoso"
    /\ Len(oLastCall.aBefore) = 2
    /\ getEnvListForTenant(oGlobalState, "contoso") = <<>>
    /\ getEnvListForTenant(oGlobalState, "fabrikam") # <<>>

\* ---------------------------------------------------------------- C19
\* the places of a step in the history of the command
PlacesOf(sStep) == {k \in 1..Len(hSteps) : hSteps[k] = sStep}

\* the four steps have happened, in this order, before place n
FourStepsBefore(n) ==
    \E a, b, c, d \in 1..n :
        /\ a < b /\ b < c /\ c < d /\ d < n
        /\ hSteps[a] = "flow ID extracted"
        /\ hSteps[b] = "chose Update"
        /\ hSteps[c] = "document saved"
        /\ hSteps[d] = "content parsed"

\* a step of the command has failed or was declined
StepFailedOrDeclined ==
    \/ pcUpdate = "done" /\ sFlowId = NullString
    \/ \E k \in 1..Len(hSteps) :
           hSteps[k] \in {"declined", "save failed", "save rejected", "content not parsed"}

\* a success message is shown
SuccessShown ==
    \E k \in 1..Len(aShown) : aShown[k] = "info: Flow clientdata updated successfully."

\* C19: in the command Update Flow the PATCH is sent only after, in this
\* order, a flow ID was extracted from the file name, the user chose
\* Update, the document was saved and the saved content was parsed as
\* JSON; when one of these steps fails or is declined, no request is sent
\* and no success message is shown.
C19_PatchOnlyAfterFourSteps ==
    /\ \A n \in PlacesOf("PATCH sent") : FourStepsBefore(n)
    /\ (aRequests # <<>>) = (PlacesOf("PATCH sent") # {})
    /\ StepFailedOrDeclined => (aRequests = <<>> /\ ~SuccessShown)

\* ---------------------------------------------------------------- C20
\* the providers of a kind that are registered and not disposed
LiveOf(sKind) ==
    {j \in 1..Len(aProviders) : aProviders[j].sKind = sKind /\ ~aProviders[j].bDisposed}

\* the kinds registered at every call, and all kinds
AlwaysKinds == {S_Completion, S_Hover, S_SignatureHelp, S_ParametersCompletion}
AllKinds == AlwaysKinds \cup {S_ActionCompletion}

\* the persisted flag: true unless stored as false
FlagIsTrue ==
    IF S_FlagKey \in DOMAIN oGlobalState THEN oGlobalState[S_FlagKey] ELSE TRUE

\* C20: after activation and any sequence of Toggle IntelliSense commands
\* the providers are live (registered and not disposed) exactly when the
\* persisted flag bIntellisenseEnabled is true: with the flag true every
\* kind registered at each call is live, with the flag false no provider
\* is live; and each provider kind is live at most once.
C20_ProvidersLiveIffFlag ==
    pcExt = "active" =>
        /\ FlagIsTrue => \A sKind \in AlwaysKinds : LiveOf(sKind) # {}
        /\ ~FlagIsTrue => \A sKind \in AllKinds : LiveOf(sKind) = {}
        /\ \A sKind \in AllKinds : Cardinality(LiveOf(sKind)) <= 1

\* C20 witness: the providers were registered at activation, disposed by
\* a toggle and registered again by the next: each kind is live once and
\* disposed once.
C20_ToggledOffAndOn ==
    /\ pcExt = "active"
    /\ iToggles = 2
    /\ FlagIsTrue
    /\ \A sKind \in AlwaysKinds :
           /\ Cardinality(LiveOf(sKind)) = 1
           /\ \E j \in 1..Len(aProviders) :
                  aProviders[j].sKind = sKind /\ aProviders[j].bDisposed

\* ---------------------------------------------------------------- C21
\* the line is  ### name (deprecated)  with nothing after the closing
\* parenthesis: a bare identifier, one space, the mark in small letters
ExactDeprecatedHeading(sLine) ==
    /\ HeadingNameEnd(sLine) # 0
    /\ SubSeq(sLine, HeadingNameEnd(sLine), Len(sLine)) = <<" ">> \o S_Deprecated

\* C21: a heading line of the exact form "### name (deprecated)", with
\* nothing after the closing parenthesis, produces an entry whose
\* deprecated flag is true.
C21_ExactDeprecatedHeadingFlagged ==
    \A k \in DOMAIN aFunctions :
        ExactDeprecatedHeading(aLines[hBlocks[k].iStartIndex + 1])
            => aFunctions[k].bDeprecated

\* ---------------------------------------------------------------- C22
\* the fences of the block from its first example header on; a line that
\* carries an example header is read as a header
FenceLines ==
    IF ExampleHeaderLines = {} THEN {}
    ELSE {k \in FencesAfter(Least(ExampleHeaderLines)) : k \notin ExampleHeaderLines}

\* the n-th of these fences
FenceNumber(n) ==
    CHOOSE k \in FenceLines : Cardinality({m \in FenceLines : m <= k}) = n

\* the fenced blocks after the first header, numbered from 1: block j
\* opens at fence 2j-1 and closes at fence 2j
FencedBlocks == 1..(Cardinality(FenceLines) \div 2)

\* the first fenced block that closes after line e, 0 when there is none
FirstBlockClosingAfter(e) ==
    IF \E j \in FencedBlocks : FenceNumber(2 * j) > e
    THEN Least({j \in FencedBlocks : FenceNumber(2 * j) > e})
    ELSE 0

\* the blocks that are the first to close after some header and have lines
ContributingBlocks ==
    {j \in FencedBlocks :
        /\ \E e \in ExampleHeaderLines : FirstBlockClosingAfter(e) = j
        /\ FenceNumber(2 * j) > FenceNumber(2 * j - 1) + 1}

\* the contributing blocks in document order
RECURSIVE InOrder(_)
InOrder(S) ==
    IF S = {} THEN <<>> ELSE <<Least(S)>> \o InOrder(S \ {Least(S)})

\* C22: within one function block each line containing "*Example"
\* contributes at most one example string, the contents of the first
\* fenced block that closes after it when that block has lines: the
\* examples are the contents of these blocks in document order, so there
\* are no more examples than header lines and no block before the first
\* header is captured.
C22_OneBlockPerHeaderInOrder ==
    pcBlock = "returned" =>
        /\ Len(stExample.aExamples) <= Cardinality(ExampleHeaderLines)
        /\ stExample.aExamples =
              [n \in 1..Cardinality(ContributingBlocks) |->
                  JoinedBetween(FenceNumber(2 * InOrder(ContributingBlocks)[n] - 1),
                                FenceNumber(2 * InOrder(ContributingBlocks)[n]))]

\* ---------------------------------------------------------------- C23
\* the places of the command at which a prompt is open or the command
\* has gone on or ended
PromptedOrOn ==
    {"promptForEnvUrl", "promptForTenantId", "promptForId", "getToken", "getClientData",
     "showTextDocument", "done"}

\* C23: when Open Flow is invoked without all three arguments it prompts
\* for the environment URL, the tenant ID and the workflow ID and starts
\* the download only with all three; cancelling a prompt ends the command
\* without a request or an error: so a command run with an argument
\* missing stands at a prompt, has gone on or has ended, and has raised
\* no error.
C23_MissingArgumentsPrompted ==
    (iOpens > 0 /\ oOpenArgs = Null) => pcOpen \in PromptedOrOn

\* ---------------------------------------------------------------- C30
\* a 36-character flow ID made of hex digits and dashes
IsFlowId(sId) == Len(sId) = iFlowIdLength /\ \A k \in 1..Len(sId) : IsHexOrDash(sId[k])

\* the PATCH requests sent
PatchesSent == {k \in 1..Len(aRequests) : aRequests[k].sMethod = "PATCH"}

\* C30: for any flow name and any 36-character flow ID made of hex digits
\* and dashes the file name written by Open Flow is mapped back by
\* extractFlowIdFromFileName to exactly that ID; Update Flow run on that
\* file reads the environment URL and the tenant that Open Flow stored
\* under that ID, and its PATCH goes to that environment and that flow.
C30_OpenedFileLeadsBackToFlow ==
    /\ \A sName \in DOMAIN hFiles :
          IsFlowId(hFiles[sName].sId)
              => extractFlowIdFromFileName(sName) = hFiles[sName].sId
    /\ (pcUpdate # "idle" /\ sFileName \in DOMAIN hFiles
           /\ IsFlowId(hFiles[sFileName].sId)) =>
          /\ sFlowId = hFiles[sFileName].sId
          /\ oTarget # Null
          /\ \E sName \in DOMAIN hFiles :
                /\ hFiles[sName].sId = sFlowId
                /\ hFiles[sName].sUrl = oTarget.sEnvUrl
                /\ hFiles[sName].sTenant = oTarget.sTenantId
          /\ oTarget.sEnvUrl = oWorkspaceState[<<"flowEnvUrl_", sFlowId>>]
          /\ oTarget.sTenantId = oWorkspaceState[<<"flowTenantId_", sFlowId>>]
          /\ \A k \in PatchesSent :
                /\ aRequests[k].sFlowId = hFiles[sFileName].sId
                /\ aRequests[k].sEnvUrl = oTarget.sEnvUrl

\* C30 witness: the flow "my f.1" was opened from one environment, and
\* the Update Flow run on the file "my-f-1.<ID>.clientdata.json" has sent
\* its PATCH for that flow to that environment.
C30_OpenedThenPatched ==
    /\ sFileName = <<"m","y","-","f","-","1",".">> \o S_GuidUpper \o S_ClientDataJson
    /\ sFileName \in DOMAIN hFiles
    /\ PatchesSent # {}
    /\ \A k \in PatchesSent :
          aRequests[k].sFlowId = S_GuidUpper /\ aRequests[k].sEnvUrl = "https://b"

\* ---------------------------------------------------------------- C24
\* the saved list of a tenant in a global state
ListIn(oState, sTenant) ==
    IF <<"flowEnvList_", sTenant>> \in DOMAIN oState
    THEN oState[<<"flowEnvList_", sTenant>>]
    ELSE <<>>

\* the tenant stored in a global state
TenantIn(oState) ==
    IF <<"flowTenantId">> \in DOMAIN oState THEN oState[<<"flowTenantId">>] ELSE ""

\* the tenants of the answers
AnsweredTenants == {"contoso", "fabrikam"}

\* the step that settles the tenant prompt
TenantPromptSettles == pcSignIn = "promptForTenantId" /\ pcSignIn' # "promptForTenantId"

\* C24: when the tenant prompt is answered with a value (trimmed) that
\* differs from the stored tenant, the list of the stored tenant is reset
\* to empty and flowTenantId becomes the new value; when the same value
\* is entered or the prompt is cancelled no list changes; the lists of
\* tenants other than the stored one are never changed by the prompt.
C24_TenantPromptResetsPreviousOnly ==
    [][TenantPromptSettles =>
        LET sPrevious == TenantIn(oGlobalState)
            bAnswered == oPrompt'.sValue # <<"undefined">>
            sNew == IF bAnswered THEN trim(oPrompt'.sValue)[1] ELSE sPrevious
        IN  /\ (bAnswered /\ sNew # sPrevious) =>
                  /\ ListIn(oGlobalState', sPrevious) = <<>>
                  /\ TenantIn(oGlobalState') = sNew
            /\ (~bAnswered \/ sNew = sPrevious) =>
                  \A sTenant \in AnsweredTenants :
                      ListIn(oGlobalState', sTenant) = ListIn(oGlobalState, sTenant)
            /\ \A sTenant \in AnsweredTenants \ {sPrevious} :
                  ListIn(oGlobalState', sTenant) = ListIn(oGlobalState, sTenant)
    ]_vars

\* C24 witness: with two environments saved for contoso the prompt was
\* answered "fabrikam": the list of contoso is empty and fabrikam is the
\* stored tenant.
C24_ChangedTenantListReset ==
    /\ pcSignIn = "promptForEnvUrl"
    /\ oPrompt # Null
    /\ oPrompt.sStoredTenant = "contoso"
    /\ Len(ListIn(oPrompt.oBefore, "contoso")) = 2
    /\ oPrompt.sValue = <<"fabrikam">>
    /\ ListIn(oGlobalState, "contoso") = <<>>
    /\ TenantIn(oGlobalState) = "fabrikam"

\* ---------------------------------------------------------------- C25
\* the columns of the quotes of a line
QuoteColumns(sLine) == {k \in 0..(Len(sLine) - 1) : sLine[k + 1] = "'"}

\* the line has one single-quoted literal, inside parentheses: two
\* quotes, after the first opening parenthesis
OneLiteral(sLine) ==
    /\ Cardinality(QuoteColumns(sLine)) = 2
    /\ \E p \in 0..(Len(sLine) - 1) :
          sLine[p + 1] = "(" /\ \A q \in QuoteColumns(sLine) : p < q

\* C25: one cleanup pass removes every nested "@": the scan of the line
\* that the edits of a pass have been applied to yields no edit; and a
\* pass deletes only "@" characters that come after an opening
\* parenthesis, so never the leading "@" of the first expression, and
\* none between the quotes of a single-quoted literal.
C25_OnePassRemovesEveryNestedAt ==
    /\ (pcAt = "apply" /\ iPasses >= 1) => aAtEdits = {}
    /\ pcAt = "apply" =>
          \A k \in aAtEdits :
              /\ sAtLine[k + 1] = "@"
              /\ \E p \in 0..(k - 1) : sAtLine[p + 1] = "("
              /\ OneLiteral(sAtLine) =>
                    ~(Least(QuoteColumns(sAtLine)) < k /\ k < Greatest(QuoteColumns(sAtLine)))

\* ---------------------------------------------------------------- C26
\* the step settles a call of getToken by a rejection and the sign-in
\* that was pending is still pending
RejectedBesidePending ==
    /\ oSignIn # Null
    /\ oSignIn' # Null
    /\ oGot' # oGot
    /\ oGot'.kind = "rejected"

\* the step resolves the pending sign-in: its server is closed, its token
\* is in the cache and its promise is resolved with that token
PendingResolved ==
    /\ oSignIn' = Null
    /\ oSignIn.sEnvUrl \in DOMAIN oTokenCache'
    /\ oGot' = [kind |-> "token", sEnvUrl |-> oSignIn.sEnvUrl,
                sToken |-> oTokenCache'[oSignIn.sEnvUrl]]

\* C26: while a sign-in is pending, a second call of getToken for an
\* environment with no cached token is rejected without caching
\* anything, and the pending sign-in is not disturbed: before its
\* timeout is due it stays pending, with the same environment and the
\* same timeout, until its callback resolves it and caches its token.
C26_PortInUseLeavesPendingSignIn ==
    /\ [][RejectedBesidePending =>
              (oTokenCache' = oTokenCache /\ aTimers' = aTimers)]_vars
    /\ [][(oSignIn # Null /\ iNow < oSignIn.iDue) =>
              (oSignIn' = oSignIn \/ PendingResolved)]_vars

\* C26 witness: a sign-in for one environment is pending, a call for
\* the other environment has been rejected, and nothing is cached.
C26_SecondCallRejectedWhilePending ==
    /\ oSignIn # Null
    /\ oGot.kind = "rejected"
    /\ oGot.sEnvUrl # oSignIn.sEnvUrl
    /\ iNow < oSignIn.iDue
    /\ oTokenCache = <<>>

\* ---------------------------------------------------------------- C27
\* the step writes a token to the cache
CacheWritten ==
    \E sEnvUrl \in DOMAIN oTokenCache' :
        sEnvUrl \notin DOMAIN oTokenCache \/ oTokenCache'[sEnvUrl] # oTokenCache[sEnvUrl]

\* the step ends the pending sign-in
SignInSettles == oSignIn # Null /\ oSignIn' = Null

\* the step resolves the pending sign-in before its timeout has fired
ResolvedInTime == PendingResolved /\ iNow <= oSignIn.iDue

\* the step rejects the pending sign-in when its timeout is due, and
\* leaves the cache as it was
RejectedAtTimeout ==
    /\ oGot' = [kind |-> "rejected", sEnvUrl |-> oSignIn.sEnvUrl]
    /\ iNow >= oSignIn.iDue
    /\ oTokenCache' = oTokenCache

C28_InstalledAtMostOnce ==
    [][ ( /\ iActivations' = iActivations + 1
          /\ hInstallRuns >= 1
          /\ FlagOf(oSkillFlags, S_InstallFlagKey)
          /\ S_InstallDir \in aSkillFiles )
        => hInstallRuns' = hInstallRuns ]_vars

\* ---------------------------------------------------------------- C29
\* C29: while a cleanup edit is being applied (bCleaningUpAt is true) a
\* change event is ignored and no second cleanup edit is issued: no step
\* calls applyEdit, and a change by the user leaves the flag and the
\* pending edit as they are; the flag is true exactly while an applyEdit
\* is pending, it is false when the applyEdit has settled, fulfilled or
\* rejected, and so a cleanup that is disabled is always enabled again.
C29_CleanupNeverLeftDisabled ==
    /\ [][bCleaningUpAt => iIssued' = iIssued]_vars
    /\ [][(bCleaningUpAt /\ iChanges' = iChanges + 1) =>
              (bCleaningUpAt' /\ pcApply' = pcApply /\ aPendingEdits' = aPendingEdits)]_vars
    /\ [](bCleaningUpAt <=> pcApply # "none")
    /\ bCleaningUpAt ~> ~bCleaningUpAt

\* C29 witness: the user's second change, which left a line with nested
\* "@", came while the edit found for the first was pending, and was
\* ignored: the pending edit is still that of the first line.
C29_ChangeIgnoredWhileCleaning ==
    /\ bCleaningUpAt
    /\ pcApply = "issued"
    /\ iChanges = 2
    /\ iIssued = 1
    /\ sDocLine = K_Double
    /\ aPendingEdits = {3}

====
